---- MODULE Spec2Model ----
(***************************************************************************)
(* A model of batstat: the host pipeline of src/batstat.py                 *)
(* (structured report -> register adapter -> derived metrics), its         *)
(* external-device path, the pure helpers they call, and the calculator of *)
(* the package src/src/batstat/batstat.py.                                 *)
(*                                                                         *)
(* Python values are tagged records  [t, k, n, s]:                         *)
(*   t = "none"                      None                                  *)
(*   t = "bool",  n \in {0,1}        False / True                          *)
(*   t = "int"                       the integer  k * 2^63 + n             *)
(*   t = "float"                     the float    n / 10                   *)
(*   t = "str",   s                  a string, as its sequence of ASCII    *)
(*                                   codes                                 *)
(* The model checker's integers are 32 bits wide, so a Python integer is   *)
(* kept as a multiple k of 2^63 plus a small offset n; the 64-bit register *)
(* values the code corrects are exactly of that form.                      *)
(***************************************************************************)
EXTENDS Integers, Sequences, FiniteSets, TLC

VARIABLES pc, detail, io_dict, today_year, fn, arg, ret, reg_bytes, battery, out, data,
          pmset_info, sp, view, env, invoked, exit_status, capture, devices, printed,
          device

\* what the renderers read and produce besides detail
viewvars == <<pmset_info, sp, view>>

\* the process: its environment, the commands it has invoked, its exit status
procvars == <<env, invoked, exit_status, capture, devices, printed, device>>

vars == <<pc, detail, io_dict, today_year, fn, arg, ret, reg_bytes, battery, out, data,
          pmset_info, sp, view, env, invoked, exit_status, capture, devices, printed,
          device>>

----------------------------------------------------------------------------
(* Python values *)

None == [t |-> "none", k |-> 0, n |-> 0, s |-> <<>>]

PyBool(b) == [t |-> "bool", k |-> 0, n |-> IF b THEN 1 ELSE 0, s |-> <<>>]

PyInt(n) == [t |-> "int", k |-> 0, n |-> n, s |-> <<>>]

PyBig(k, n) == [t |-> "int", k |-> k, n |-> n, s |-> <<>>]

PyFloat(tenths) == [t |-> "float", k |-> 0, n |-> tenths, s |-> <<>>]

\* float('inf') and float('-inf'): k = 1, n the sign
PyInf(sign) == [t |-> "float", k |-> 1, n |-> sign, s |-> <<>>]

\* float('nan'): k = 2
PyNaN == [t |-> "float", k |-> 2, n |-> 0, s |-> <<>>]

PyStr(codes) == [t |-> "str", k |-> 0, n |-> 0, s |-> codes]

True == PyBool(TRUE)

False == PyBool(FALSE)

IsNone(v) == v.t = "none"

\* a JSON array: s holds its elements
PyList(l) == [t |-> "list", k |-> 0, n |-> 0, s |-> l]

\* a JSON object: d maps its keys to their values
PyDict(b) == [t |-> "dict", k |-> 0, n |-> 0, s |-> <<>>, d |-> b]

\* isinstance(v, dict)
IsDict(v) == v.t = "dict"

\* Python truthiness, as used by `a or b` and `if x`.
Truthy(v) ==
    CASE v.t = "none"  -> FALSE
      [] v.t = "bool"  -> v.n = 1
      [] v.t = "int"   -> ~(v.k = 0 /\ v.n = 0)
      [] v.t = "float" -> v.k # 0 \/ v.n # 0
      [] v.t = "str"   -> Len(v.s) > 0
      [] v.t = "list"  -> Len(v.s) > 0
      [] v.t = "dict"  -> DOMAIN v.d # {}

\* a or b
PyOr(a, b) == IF Truthy(a) THEN a ELSE b

\* d.get(key) on a bag / record whose missing keys read as None
Get(d, key) == IF key \in DOMAIN d THEN d[key] ELSE None

----------------------------------------------------------------------------
(* Characters and strings *)

IsDigit(c) == 48 <= c /\ c <= 57

AllDigits(s) == \A i \in 1..Len(s) : IsDigit(s[i])

\* sub in s
Contains(s, sub) ==
    \E i \in 0..(Len(s) - Len(sub)) : SubSeq(s, i + 1, i + Len(sub)) = sub

Reverse(s) == [i \in 1..Len(s) |-> s[Len(s) + 1 - i]]

RECURSIVE DecimalValue(_)
\* value of a string of decimal digits
DecimalValue(s) ==
    IF Len(s) = 0 THEN 0
    ELSE 10 * DecimalValue(SubSeq(s, 1, Len(s) - 1)) + (s[Len(s)] - 48)

\* ASCII whitespace: what str.strip() removes and \s matches
IsSpace(c) == c \in {9, 10, 11, 12, 13, 32}

RECURSIVE Strip(_)
\* str.strip() for blanks
Strip(s) ==
    IF Len(s) = 0 THEN s
    ELSE IF IsSpace(s[1]) THEN Strip(Tail(s))
    ELSE IF IsSpace(s[Len(s)]) THEN Strip(SubSeq(s, 1, Len(s) - 1))
    ELSE s

\* int(str): optional blanks, optional sign, then decimal digits
IntOfStr(s) ==
    LET b == Strip(s)
        signed == Len(b) > 0 /\ b[1] \in {43, 45}
        digits == IF signed THEN Tail(b) ELSE b
    IN  IF Len(digits) = 0 \/ ~AllDigits(digits)
        THEN None
        ELSE IF signed /\ b[1] = 45 THEN PyInt(0 - DecimalValue(digits))
        ELSE PyInt(DecimalValue(digits))

----------------------------------------------------------------------------
(* Shared numeric primitives *)

\* truncation toward zero of  tenths / 10
TruncTenths(tenths) ==
    IF tenths >= 0 THEN tenths \div 10 ELSE 0 - ((0 - tenths) \div 10)

\* the exception int(v) raises, "" when it returns
int_error(v) ==
    CASE v.t = "none"                -> "TypeError"
      [] v.t \in {"bool", "int"}     -> ""
      [] v.t = "float" /\ v.k = 0    -> ""
      [] v.t = "float" /\ v.k = 1    -> "OverflowError"
      [] v.t = "float" /\ v.k = 2    -> "ValueError"
      [] v.t = "str"                 -> IF IsNone(IntOfStr(v.s)) THEN "ValueError" ELSE ""
      [] v.t \in {"list", "dict"}    -> "TypeError"

\* the exceptions to_int does not catch
to_int_raises(v) == int_error(v) \notin {"", "TypeError", "ValueError"}

\* what to_int returns when it returns
to_int(v) ==
    CASE v.t = "none"                -> None
      [] v.t = "bool"                -> PyInt(v.n)
      [] v.t = "int"                 -> v
      [] v.t = "float" /\ v.k = 0    -> PyInt(TruncTenths(v.n))
      [] v.t = "float" /\ v.k # 0    -> None
      [] v.t = "str"                 -> IntOfStr(v.s)
      [] v.t \in {"list", "dict"}    -> None

\* val >= 2**63  for val = k * 2^63 + n with |n| < 2^62
GeTwo63(val) == val.k >= 2 \/ (val.k = 1 /\ val.n >= 0)

\* val - 2**64
SubTwo64(val) == PyBig(val.k - 2, val.n)

\* variant: the threshold test is strict (val > 2**63)
to_int_signed_64_strict(v) ==
    LET val == to_int(v)
    IN  IF IsNone(val) THEN None
        ELSE IF val.k >= 2 \/ (val.k = 1 /\ val.n > 0) THEN SubTwo64(val)
        ELSE val

to_int_signed_64(v) ==
    LET val == to_int(v)
    IN  IF IsNone(val) THEN None
        ELSE IF GeTwo63(val) THEN SubTwo64(val)
        ELSE val

----------------------------------------------------------------------------
(* round(x, 1) *)

\* The tenths nearest to num / den (den > 0).  Python rounds the binary
\* double, so when num / den lies exactly half way between two tenths the
\* representation error of the double decides; both neighbours are admitted.
Round1(num, den) ==
    LET q == (10 * num) \div den
        r == (10 * num) - q * den
    IN  IF 2 * r < den THEN {q}
        ELSE IF 2 * r > den THEN {q + 1}
        ELSE {q, q + 1}

\* round(a / b * 100, 1) for integers a, b with b # 0
RoundPct(a, b) ==
    IF b > 0 THEN Round1(100 * a, b) ELSE Round1(0 - 100 * a, 0 - b)

----------------------------------------------------------------------------
(* Arbitrary-precision integers of the manufacture-date path: four 16-bit *)
(* limbs, most significant first.                                         *)

LimbBase == 256 * 256

ZeroLimbs == <<0, 0, 0, 0>>

\* l * m + d  for small m, d
MulAdd(l, m, d) ==
    LET c4 == l[4] * m + d
        c3 == l[3] * m + (c4 \div LimbBase)
        c2 == l[2] * m + (c3 \div LimbBase)
        c1 == l[1] * m + (c2 \div LimbBase)
    IN  <<c1 % LimbBase, c2 % LimbBase, c3 % LimbBase, c4 % LimbBase>>

RECURSIVE LimbsOfDecimal(_)
\* int(s) for a string of decimal digits
LimbsOfDecimal(s) ==
    IF Len(s) = 0 THEN ZeroLimbs
    ELSE MulAdd(LimbsOfDecimal(SubSeq(s, 1, Len(s) - 1)), 10, s[Len(s)] - 48)

RECURSIVE StripZeroBytes(_)
StripZeroBytes(b) ==
    IF Len(b) > 0 /\ b[1] = 0 THEN StripZeroBytes(Tail(b)) ELSE b

\* val.to_bytes(max(1, (val.bit_length() + 7) // 8), "big")
to_bytes(l) ==
    LET full == <<l[1] \div 256, l[1] % 256, l[2] \div 256, l[2] % 256,
                  l[3] \div 256, l[3] % 256, l[4] \div 256, l[4] % 256>>
        min == StripZeroBytes(full)
    IN  IF Len(min) = 0 THEN <<0>> ELSE min

----------------------------------------------------------------------------
(* datetime.date *)

IsLeap(y) == (y % 4 = 0 /\ y % 100 # 0) \/ y % 400 = 0

DaysInMonth(y, m) ==
    IF m = 2 THEN (IF IsLeap(y) THEN 29 ELSE 28)
    ELSE IF m \in {4, 6, 9, 11} THEN 30 ELSE 31

\* datetime.date(y, m, d) does not raise ValueError
ValidDate(y, m, d) ==
    /\ 1 <= y /\ y <= 9999
    /\ 1 <= m /\ m <= 12
    /\ 1 <= d /\ d <= DaysInMonth(y, m)

TwoDigits(x) == <<48 + (x \div 10), 48 + (x % 10)>>

\* date.isoformat(): YYYY-MM-DD
isoformat(y, m, d) ==
    TwoDigits(y \div 100) \o TwoDigits(y % 100) \o <<45>>
        \o TwoDigits(m) \o <<45>> \o TwoDigits(d)

----------------------------------------------------------------------------
(* _decode_manufacture_date *)

\* int(raw) as limbs, or <<>> when int() raises or the value is negative
\* (to_bytes then raises OverflowError)
DateInt(raw) ==
    CASE raw.t = "none"  -> <<>>
      [] raw.t = "bool"  -> <<0, 0, 0, raw.n>>
      [] raw.t = "int"   ->
            IF raw.k # 0 \/ raw.n < 0 THEN <<>>
            ELSE <<0, 0, raw.n \div LimbBase, raw.n % LimbBase>>
      [] raw.t = "float" ->
            IF TruncTenths(raw.n) < 0 THEN <<>>
            ELSE <<0, 0, TruncTenths(raw.n) \div LimbBase,
                         TruncTenths(raw.n) % LimbBase>>
      [] raw.t = "str"   ->
            LET b == Strip(raw.s)
            IN  IF Len(b) = 0 \/ ~AllDigits(b) THEN <<>>
                ELSE LimbsOfDecimal(b)

\* the candidate strings, in the order they are tried
DateCandidates(s) == IF Len(s) = 6 THEN <<s, Reverse(s)>> ELSE <<>>

CandYear(cand) == 2000 + DecimalValue(SubSeq(cand, 1, 2))

CandMonth(cand) == DecimalValue(SubSeq(cand, 3, 4))

CandDay(cand) == DecimalValue(SubSeq(cand, 5, 6))

\* the body of the loop accepts this candidate
CandAccepted(cand, today) ==
    /\ Len(cand) = 6
    /\ 2000 <= CandYear(cand) /\ CandYear(cand) <= today
    /\ ValidDate(CandYear(cand), CandMonth(cand), CandDay(cand))

\* variant: the reversed string is tried before the string as written
_decode_manufacture_date_reversed_first(raw, today) ==
    LET val == DateInt(raw)
    IN  IF val = <<>> THEN None
        ELSE LET b == to_bytes(val)
             IN  IF ~AllDigits(b) THEN None
                 ELSE LET cands == DateCandidates(Reverse(b))
                          ok == {i \in 1..Len(cands) : CandAccepted(cands[i], today)}
                      IN  IF ok = {} THEN None
                          ELSE LET c == cands[CHOOSE i \in ok : \A j \in ok : i <= j]
                               IN  PyStr(isoformat(CandYear(c), CandMonth(c), CandDay(c)))

\* variant: a string that is not six characters long is still tried
_decode_manufacture_date_any_length(raw, today) ==
    LET val == DateInt(raw)
    IN  IF val = <<>> THEN None
        ELSE LET b == to_bytes(val)
             IN  IF ~AllDigits(b) THEN None
                 ELSE LET s6 == IF Len(b) < 6 THEN [i \in 1..6 |-> IF i <= 6 - Len(b) THEN 48 ELSE b[i - (6 - Len(b))]]
                                ELSE SubSeq(b, 1, 6)
                          cands == <<s6, Reverse(s6)>>
                          ok == {i \in 1..Len(cands) : CandAccepted(cands[i], today)}
                      IN  IF ok = {} THEN None
                          ELSE LET c == cands[CHOOSE i \in ok : \A j \in ok : i <= j]
                               IN  PyStr(isoformat(CandYear(c), CandMonth(c), CandDay(c)))

_decode_manufacture_date(raw, today) ==
    LET val == DateInt(raw)
    IN  IF val = <<>> THEN None
        ELSE LET b == to_bytes(val)
             IN  IF ~AllDigits(b) THEN None
                 ELSE LET cands == DateCandidates(b)
                          ok == {i \in 1..Len(cands) : CandAccepted(cands[i], today)}
                      IN  IF ok = {} THEN None
                          ELSE LET c == cands[CHOOSE i \in ok : \A j \in ok : i <= j]
                               IN  PyStr(isoformat(CandYear(c), CandMonth(c), CandDay(c)))


----------------------------------------------------------------------------
(* boolish_to_str *)

Upper(s) == [i \in 1..Len(s) |-> IF 97 <= s[i] /\ s[i] <= 122 THEN s[i] - 32 ELSE s[i]]

Lower(s) == [i \in 1..Len(s) |-> IF 65 <= s[i] /\ s[i] <= 90 THEN s[i] + 32 ELSE s[i]]

RECURSIVE DecimalOfNat(_)
DecimalOfNat(x) ==
    IF x < 10 THEN <<48 + x>> ELSE DecimalOfNat(x \div 10) \o <<48 + (x % 10)>>

\* str(v) for the scalars of the model
PyStrOf(v) ==
    CASE v.t = "none"  -> <<78, 111, 110, 101>>
      [] v.t = "bool"  -> IF v.n = 1 THEN <<84, 114, 117, 101>> ELSE <<70, 97, 108, 115, 101>>
      [] v.t = "int"   -> IF v.n < 0 THEN <<45>> \o DecimalOfNat(0 - v.n) ELSE DecimalOfNat(v.n)
      [] v.t = "float" ->
            IF v.n < 0
            THEN <<45>> \o DecimalOfNat((0 - v.n) \div 10) \o <<46, 48 + ((0 - v.n) % 10)>>
            ELSE DecimalOfNat(v.n \div 10) \o <<46, 48 + (v.n % 10)>>
      [] v.t = "str"   -> v.s

str_Yes == <<89, 101, 115>>

str_No == <<78, 111>>

str_Unknown == <<85, 110, 107, 110, 111, 119, 110>>

\* health labels of the structured report
str_Normal == <<78, 111, 114, 109, 97, 108>>

str_Good == <<71, 111, 111, 100>>

str_NORMAL == <<78, 79, 82, 77, 65, 76>>

str_Service_Recommended == <<83, 101, 114, 118, 105, 99, 101, 32, 82, 101, 99, 111, 109, 109, 101, 110, 100, 101, 100>>

str_Replace_Soon == <<82, 101, 112, 108, 97, 99, 101, 32, 83, 111, 111, 110>>

str_Check_Battery == <<67, 104, 101, 99, 107, 32, 66, 97, 116, 116, 101, 114, 121>>

str_Fair == <<70, 97, 105, 114>>

str_Poor == <<80, 111, 111, 114>>

str_Good_service_soon == <<71, 111, 111, 100, 44, 32, 115, 101, 114, 118, 105, 99, 101, 32, 115, 111, 111, 110>>

str_TRUE == <<84, 82, 85, 69>>

str_FALSE == <<70, 65, 76, 83, 69>>

boolish_to_str(v) ==
    IF v.t = "none" THEN str_Unknown
    ELSE IF v.t = "bool" THEN (IF v.n = 1 THEN str_Yes ELSE str_No)
    ELSE LET s == Upper(Strip(PyStrOf(v)))
         IN  IF s \in {str_TRUE, <<89, 69, 83>>, <<49>>} THEN str_Yes
             ELSE IF s \in {str_FALSE, <<78, 79>>, <<48>>} THEN str_No
             ELSE PyStrOf(v)

----------------------------------------------------------------------------
(* enrich_with_ioreg *)

EmptyBag == [x \in {} |-> None]

\* no device selected: udid and device_name are None
NoDevice == [udid |-> None, name |-> None]

\* the variables of main() and of the renderers, before main() has run
NoProcess ==
    /\ pmset_info = EmptyBag /\ sp = None /\ view = EmptyBag
    /\ env = EmptyBag /\ invoked = <<>> /\ exit_status = None /\ capture = EmptyBag
    /\ devices = <<>> /\ printed = <<>> /\ device = NoDevice

\* the keys of the dict extract_battery_and_charger returns
DetailFields ==
    {"current_capacity", "max_capacity", "design_capacity", "fully_charged",
     "is_charging", "cycle_count", "health", "health_pct", "battery_serial",
     "voltage_mV", "amperage_mA", "temperature_c", "manufacture_date",
     "charging_watts", "charger_name", "charger_watts",
     "charger_manufacturer", "charger_serial", "charger_connected",
     "charger_is_charging"}

\* variant: a None value is written like any other
set_if_absent_any(d, key, value) ==
    (key :> value) @@ d

set_if_absent(d, key, value) ==
    IF IsNone(value) THEN d
    ELSE IF IsNone(Get(d, key)) THEN (key :> value) @@ d
    ELSE (key :> value) @@ d

\* the locals of enrich_with_ioreg read from the register bag
io_design(io) == to_int(Get(io, "DesignCapacity"))

io_max_cap(io) == to_int(PyOr(Get(io, "AppleRawMaxCapacity"), Get(io, "MaxCapacity")))

io_cur_cap(io) ==
    to_int(PyOr(Get(io, "AppleRawCurrentCapacity"), Get(io, "CurrentCapacity")))

io_cycles(io) == to_int(Get(io, "CycleCount"))

io_voltage(io) == to_int(PyOr(Get(io, "Voltage"), Get(io, "AppleRawBatteryVoltage")))

io_amperage(io) == to_int_signed_64(PyOr(Get(io, "Amperage"), Get(io, "InstantAmperage")))

io_temp_raw(io) == PyOr(Get(io, "Temperature"), Get(io, "VirtualTemperature"))

\* amperage > 0
Positive(v) == v.k > 0 \/ (v.k = 0 /\ v.n > 0)

\* the fields merged before the first derived metric, in program order
MergeCapacities(d, io) ==
    LET d1 == set_if_absent(d, "design_capacity", io_design(io))
        d2 == set_if_absent(d1, "max_capacity", io_max_cap(io))
        d3 == set_if_absent(d2, "current_capacity", io_cur_cap(io))
        d4 == set_if_absent(d3, "cycle_count", io_cycles(io))
        d5 == set_if_absent(d4, "voltage_mV", io_voltage(io))
        d6 == set_if_absent(d5, "amperage_mA", io_amperage(io))
        d7 == set_if_absent(d6, "charger_is_charging", Get(io, "IsCharging"))
    IN  set_if_absent(d7, "charger_connected", Get(io, "ExternalConnected"))

\* the condition guarding the live charging wattage
WattsGuard(d, io) ==
    /\ ~IsNone(io_voltage(io))
    /\ ~IsNone(io_amperage(io))
    /\ Positive(io_amperage(io))
    /\ Truthy(PyOr(Get(d, "charger_is_charging"), Get(d, "charger_connected")))

\* round(voltage * amperage / 1_000_000, 1), or None when skipped
WattsValues(d, io) ==
    IF WattsGuard(d, io)
    THEN {PyFloat(w) : w \in Round1(io_voltage(io).n * io_amperage(io).n, 1000000)}
    ELSE {None}

\* isinstance(temp_raw, (int, float)); bool is a subclass of int
IsNumber(v) == v.t \in {"bool", "int", "float"}

\* round((temp_raw / 10) - 273.15, 1), or None when skipped
TempValues(io) ==
    LET raw == io_temp_raw(io)
        tenths == IF raw.t = "float" THEN raw.n ELSE 10 * raw.n
    IN  IF IsNumber(raw)
        THEN {PyFloat(t) : t \in Round1(tenths - 27315, 100)}
        ELSE {None}

\* round(max_cap / design * 100, 1), or None when skipped
HealthValues(io) ==
    IF Truthy(io_max_cap(io)) /\ Truthy(io_design(io))
    THEN {PyFloat(h) : h \in RoundPct(io_max_cap(io).n, io_design(io).n)}
    ELSE {None}

ManufDate(io, today) ==
    LET manuf_raw == Get(io, "ManufactureDateRaw")
        manuf_date == IF Truthy(manuf_raw)
                      THEN _decode_manufacture_date(manuf_raw, today)
                      ELSE None
    IN  IF Truthy(manuf_date) THEN manuf_date ELSE None

\* every record enrich_with_ioreg can return for this record and register bag
enrich_with_ioreg(d, io, today) ==
    IF io = EmptyBag THEN {d}
    ELSE LET m == MergeCapacities(d, io)
         IN  { LET e1 == set_if_absent(m, "charging_watts", w)
                   e2 == set_if_absent(e1, "temperature_c", t)
                   e3 == set_if_absent(e2, "charger_watts", to_int(Get(io, "AdapterWatts")))
                   e4 == set_if_absent(e3, "health_pct", h)
               IN  set_if_absent(e4, "manufacture_date", ManufDate(io, today))
               : w \in WattsValues(m, io), t \in TempValues(io), h \in HealthValues(io) }


----------------------------------------------------------------------------
(* Inputs: what the battery controller and the capture tools can deliver *)

RECURSIVE LimbsOfBytes(_)
\* the integer whose big-endian bytes are b
LimbsOfBytes(b) ==
    IF Len(b) = 0 THEN ZeroLimbs
    ELSE MulAdd(LimbsOfBytes(SubSeq(b, 1, Len(b) - 1)), 256, b[Len(b)])

\* l \div 10 and l % 10
Div10(l) ==
    LET c1 == l[1]
        c2 == (c1 % 10) * LimbBase + l[2]
        c3 == (c2 % 10) * LimbBase + l[3]
        c4 == (c3 % 10) * LimbBase + l[4]
    IN  [q |-> <<c1 \div 10, c2 \div 10, c3 \div 10, c4 \div 10>>, r |-> c4 % 10]

RECURSIVE DecimalOfLimbs(_)
DecimalOfLimbs(l) ==
    IF Div10(l).q = ZeroLimbs THEN <<48 + Div10(l).r>>
    ELSE DecimalOfLimbs(Div10(l).q) \o <<48 + Div10(l).r>>

\* the text ioreg prints for a register holding the bytes b
PackedLiteral(b) == DecimalOfLimbs(LimbsOfBytes(b))

\* two-character chunks from which packed dates are assembled
DateChunks ==
    {<<48, 48>>, <<48, 50>>, <<48, 51>>, <<49, 49>>, <<49, 50>>, <<49, 51>>, <<49, 53>>,
     <<50, 49>>, <<50, 57>>, <<51, 48>>, <<53, 49>>, <<57, 50>>, <<50, 58>>}

PackedDates == {a \o b \o c : a \in DateChunks, b \in DateChunks, c \in DateChunks}

\* byte strings that are not six characters long
OddLengths ==
    {<<50, 49, 48, 51, 49>>, <<50, 49, 48, 51, 49, 53, 48>>, <<50>>, <<0>>,
     <<50, 49, 48, 51>>}

str_210315 == <<50, 49, 48, 51, 49, 53>>

str_513012 == <<53, 49, 51, 48, 49, 50>>

str_2021_03_15 == <<50, 48, 50, 49, 45, 48, 51, 45, 49, 53>>

MinCurrentYear == 2025

MaxCurrentYear == 2026

CurrentYears == MinCurrentYear..MaxCurrentYear


RECURSIVE Bags(_, _, _)
\* the bags over keys that hold at most budget entries, values[k] being the
\* values key k can take
Bags(keys, values, budget) ==
    IF keys = {} \/ budget = 0 THEN {EmptyBag}
    ELSE LET k == CHOOSE x \in keys : TRUE
             rest == keys \ {k}
         IN  Bags(rest, values, budget)
               \cup {(k :> v) @@ b : v \in values[k], b \in Bags(rest, values, budget - 1)}

str_hot == <<104, 111, 116>>

\* what _parse_ioreg_value and the two nested patterns can put in the bag
IoValues ==
    [DesignCapacity      |-> {PyInt(0), PyInt(5000)},
     AppleRawMaxCapacity |-> {PyInt(0), PyInt(4000)},
     MaxCapacity         |-> {PyInt(4500)},
     CycleCount          |-> {PyInt(142)},
     Voltage             |-> {PyInt(12000)},
     Amperage            |-> {PyInt(500), PyInt(0), PyBig(2, -200)},
     IsCharging          |-> {True, False},
     ExternalConnected   |-> {True, False},
     Temperature         |-> {PyInt(3000), PyStr(str_hot)},
     AdapterWatts        |-> {PyInt(96)},
     ManufactureDateRaw  |-> {PyStr(PackedLiteral(str_210315)),
                              PyStr(PackedLiteral(<<50, 49, 51, 48, 49, 53>>)),
                              PyStr(PackedLiteral(<<50, 49, 48, 51, 58, 53>>)),
                              PyStr(PackedLiteral(<<50, 49, 48, 51, 49>>)),
                              PyStr(str_hot)}]

MaxIoKeys == 3

IoDicts == Bags(DOMAIN IoValues, IoValues, MaxIoKeys)

\* the dict extract_battery_and_charger starts from
EmptyDetail == [f \in DetailFields |-> None]

\* the non-null values the structured report can supply
SpValues ==
    [max_capacity        |-> {PyInt(4000), PyInt(0)},
     cycle_count         |-> {PyInt(150)},
     voltage_mV          |-> {PyInt(11000)},
     amperage_mA         |-> {PyInt(400)},
     charger_watts       |-> {PyInt(60)},
     charger_connected   |-> {True, False, PyStr(str_TRUE), PyStr(str_FALSE)},
     charger_is_charging |-> {True, False, PyStr(str_TRUE), PyStr(str_FALSE)}]

MaxSpFields == 2

\* the records main() can hold after line 1031: {} when the structured
\* report is unavailable, else the dict of extract_battery_and_charger
SpDetails ==
    {EmptyBag} \cup {b @@ EmptyDetail : b \in Bags(DOMAIN SpValues, SpValues, MaxSpFields)}

----------------------------------------------------------------------------
(* Command capture and the power-summary adapter: run_cmd, parse_pmset *)

\* how a command can end: the tool is missing (OSError), it exits non-zero
\* (CalledProcessError), or it exits zero with the given stdout
Outcome(kind, stdout) == [kind |-> kind, stdout |-> stdout]

\* variant: the exit status is not checked
run_cmd_unchecked(outcome) ==
    IF outcome.kind = "not_found" THEN None
    ELSE PyStr(Strip(outcome.stdout))

\* stripped stdout, or None on error
run_cmd(outcome) ==
    IF outcome.kind \in {"not_found", "nonzero"} THEN None
    ELSE PyStr(Strip(outcome.stdout))

MinOf(S) == CHOOSE x \in S : \A y \in S : x <= y

\* the first position >= from where s has one of the codes, Len(s) + 1 if none
Find(s, from, cs) == MinOf({i \in from..Len(s) : s[i] \in cs} \cup {Len(s) + 1})

\* the first position >= from where s has none of the codes, Len(s) + 1 if none
FindNot(s, from, cs) == MinOf({i \in from..Len(s) : s[i] \notin cs} \cup {Len(s) + 1})

\* str.splitlines()
RECURSIVE splitlines(_)
splitlines(s) ==
    IF Len(s) = 0 THEN <<>>
    ELSE LET i == Find(s, 1, {10, 11, 12, 13})
             skip == IF i < Len(s) /\ s[i] = 13 /\ s[i + 1] = 10 THEN 2 ELSE 1
         IN  IF i > Len(s) THEN <<s>>
             ELSE <<SubSeq(s, 1, i - 1)>> \o splitlines(SubSeq(s, i + skip, Len(s)))

Digits == 48..57

\* the end of the match of \d+% that starts at i, 0 if there is none
PercentTokenEnd(line, i) ==
    LET e == FindNot(line, i, Digits)
    IN  IF i <= Len(line) /\ IsDigit(line[i]) /\ e <= Len(line) /\ line[e] = 37 THEN e ELSE 0

str_Now_drawing_from == <<78, 111, 119, 32, 100, 114, 97, 119, 105, 110, 103, 32, 102, 114, 111, 109, 32, 39>>

\* re.search(r"Now drawing from '([^']+)'", line): group 1, or None
search_source(line) ==
    LET lit == str_Now_drawing_from
        ends(i) == Find(line, i + Len(lit), {39})
        starts == {i \in 1..Len(line) :
                      /\ i + Len(lit) - 1 <= Len(line)
                      /\ SubSeq(line, i, i + Len(lit) - 1) = lit
                      /\ ends(i) <= Len(line)
                      /\ ends(i) > i + Len(lit)}
    IN  IF starts = {} THEN None
        ELSE PyStr(SubSeq(line, MinOf(starts) + Len(lit), ends(MinOf(starts)) - 1))

\* re.search(r"(\d+)%", line): group 1, or None
search_percent(line) ==
    LET starts == {i \in 1..Len(line) : PercentTokenEnd(line, i) > 0}
    IN  IF starts = {} THEN None
        ELSE PyStr(SubSeq(line, MinOf(starts), PercentTokenEnd(line, MinOf(starts)) - 1))

\* re.search(r"\d+%\s*;\s*([^;]+);", line): group 1 stripped, or None
search_status(line) ==
    LET semi(i) == FindNot(line, PercentTokenEnd(line, i) + 1, {9, 10, 11, 12, 13, 32})
        close(i) == Find(line, semi(i) + 1, {59})
        starts == {i \in 1..Len(line) :
                      /\ PercentTokenEnd(line, i) > 0
                      /\ semi(i) <= Len(line) /\ line[semi(i)] = 59
                      /\ close(i) <= Len(line)
                      /\ close(i) > semi(i) + 1}
    IN  IF starts = {} THEN None
        ELSE PyStr(Strip(SubSeq(line, semi(MinOf(starts)) + 1, close(MinOf(starts)) - 1)))

str_remaining_word == <<114, 101, 109, 97, 105, 110, 105, 110, 103>>

\* re.search(r";\s*([^;]*remaining[^;]*)", line): group 1 stripped, or None
search_time_remaining(line) ==
    LET segment(i) == SubSeq(line, i + 1, Find(line, i + 1, {59}) - 1)
        starts == {i \in 1..Len(line) :
                      line[i] = 59 /\ Contains(segment(i), str_remaining_word)}
    IN  IF starts = {} THEN None
        ELSE PyStr(Strip(segment(MinOf(starts))))

\* variant: the time estimate is searched only when a status was found
parse_pmset_nested(out_text) ==
    LET info == [raw |-> out_text, source |-> None, percent |-> None,
                 status |-> None, time_remaining |-> None]
    IN  IF ~Truthy(out_text) THEN info
        ELSE LET lines == splitlines(out_text.s)
                 first == [info EXCEPT !.source = search_source(lines[1])]
             IN  IF Len(lines) >= 2
                 THEN [first EXCEPT !.percent = search_percent(lines[2]),
                                    !.status = search_status(lines[2]),
                                    !.time_remaining =
                                        IF IsNone(search_status(lines[2])) THEN None
                                        ELSE search_time_remaining(lines[2])]
                 ELSE first

\* parse_pmset, given what run_cmd returned
parse_pmset(out_text) ==
    LET info == [raw |-> out_text, source |-> None, percent |-> None,
                 status |-> None, time_remaining |-> None]
    IN  IF ~Truthy(out_text) THEN info
        ELSE LET lines == splitlines(out_text.s)
                 first == [info EXCEPT !.source = search_source(lines[1])]
             IN  IF Len(lines) >= 2
                 THEN [first EXCEPT !.percent = search_percent(lines[2]),
                                    !.status = search_status(lines[2]),
                                    !.time_remaining = search_time_remaining(lines[2])]
                 ELSE first

str_line1_ac == <<78, 111, 119, 32, 100, 114, 97, 119, 105, 110, 103, 32, 102, 114, 111, 109, 32, 39, 65, 67, 32, 80, 111, 119, 101, 114, 39>>

str_line1_battery == <<78, 111, 119, 32, 100, 114, 97, 119, 105, 110, 103, 32, 102, 114, 111, 109, 32, 39, 66, 97, 116, 116, 101, 114, 121, 32, 80, 111, 119, 101, 114, 39>>

str_line1_none == <<78, 111, 32, 98, 97, 116, 116, 101, 114, 105, 101, 115, 32, 97, 118, 97, 105, 108, 97, 98, 108, 101>>

str_line1_empty_name == <<78, 111, 119, 32, 100, 114, 97, 119, 105, 110, 103, 32, 102, 114, 111, 109, 32, 39, 39>>

PmsetFirstLines == {str_line1_ac, str_line1_battery, str_line1_none, str_line1_empty_name}

str_battery_id == <<32, 45, 73, 110, 116, 101, 114, 110, 97, 108, 66, 97, 116, 116, 101, 114, 121, 45, 48, 32, 40, 105, 100, 61, 49, 50, 51, 41, 32>>

str_85pct == <<56, 53, 37>>

str_100pct == <<49, 48, 48, 37>>

str_85 == <<56, 53>>

str_status_charging == <<59, 32, 99, 104, 97, 114, 103, 105, 110, 103, 59>>

str_status_discharging == <<59, 32, 100, 105, 115, 99, 104, 97, 114, 103, 105, 110, 103>>

str_status_attached == <<32, 59, 32, 65, 67, 32, 97, 116, 116, 97, 99, 104, 101, 100, 59>>

str_status_empty == <<59, 59>>

str_time_present == <<32, 49, 58, 48, 52, 32, 114, 101, 109, 97, 105, 110, 105, 110, 103, 32, 112, 114, 101, 115, 101, 110, 116, 58, 32, 116, 114, 117, 101>>

str_no_estimate == <<32, 40, 110, 111, 32, 101, 115, 116, 105, 109, 97, 116, 101, 41, 32, 112, 114, 101, 115, 101, 110, 116, 58, 32, 116, 114, 117, 101>>

str_time_closed == <<32, 48, 58, 48, 48, 32, 114, 101, 109, 97, 105, 110, 105, 110, 103, 59, 32, 112, 114, 101, 115, 101, 110, 116, 58, 32, 116, 114, 117, 101>>

\* second lines: battery id, percentage token, status phrase, time estimate,
\* each of which may be missing or malformed
PmsetSecondLines ==
    {a \o b \o c \o d :
        a \in {str_battery_id, <<>>},
        b \in {str_85pct, str_100pct, str_85, <<>>},
        c \in {str_status_charging, str_status_discharging, str_status_attached,
                str_status_empty, <<>>},
        d \in {str_time_present, str_no_estimate, str_time_closed, <<>>}}

\* what `pmset -g batt` can write to stdout
PmsetTexts ==
    {<<>>, <<10>>} \cup {l1 \o <<10>> : l1 \in PmsetFirstLines}
      \cup {l1 \o <<10>> \o l2 \o <<10>> : l1 \in PmsetFirstLines, l2 \in PmsetSecondLines}

PmsetOutcomes ==
    {Outcome("not_found", <<>>)}
      \cup {Outcome(k, text) : k \in {"nonzero", "ok"}, text \in PmsetTexts}

PmsetInit ==
    /\ pc = "pmset"
    /\ detail = EmptyBag /\ io_dict = EmptyBag /\ data = EmptyBag
    /\ today_year = MaxCurrentYear
    /\ fn = "" /\ arg = None /\ ret = None /\ reg_bytes = <<>>
    /\ battery = EmptyBag /\ out = EmptyBag
    /\ NoProcess

\* pmset_info = parse_pmset(), the command ending in any of the outcomes
ParsePmset ==
    /\ pc = "pmset"
    /\ \E o \in PmsetOutcomes :
          /\ capture' = o
          /\ pmset_info' = parse_pmset(run_cmd(o))
    /\ invoked' = Append(invoked, "pmset")
    /\ pc' = "pmset_parsed"
    /\ UNCHANGED <<detail, io_dict, today_year, fn, arg, ret, reg_bytes, battery, out, data,
                   sp, view, env, exit_status, devices, printed, device>>

PmsetNext == ParsePmset

SpecPmset == PmsetInit /\ [][PmsetNext]_vars

----------------------------------------------------------------------------
(* Structured-report adapter: extract_battery_and_charger *)

\* v.get(key, default) on a dict
DictGet(v, key, default) == IF key \in DOMAIN v.d THEN v.d[key] ELSE default

\* what `for entry in entries` iterates over
entries_of(report) ==
    LET entries == DictGet(report, "SPPowerDataType", PyList(<<>>))
    IN  CASE entries.t = "dict" -> <<entries>>
          [] entries.t = "list" -> entries.s
          [] entries.t = "str"  -> [i \in 1..Len(entries.s) |-> PyStr(<<entries.s[i]>>)]

is_battery_entry(entry) == "sppower_battery_charge_info" \in DOMAIN entry.d

is_charger_entry(entry) ==
    \/ "sppower_battery_charger_connected" \in DOMAIN entry.d
    \/ "sppower_ac_charger_watts" \in DOMAIN entry.d

\* variant: an entry already retained is not replaced by a later one
RECURSIVE extract_loop_first(_, _, _)
extract_loop_first(entries, battery_entry, charger_entry) ==
    IF Len(entries) = 0 THEN [battery_entry |-> battery_entry, charger_entry |-> charger_entry]
    ELSE LET entry == Head(entries)
         IN  IF ~IsDict(entry)
             THEN extract_loop_first(Tail(entries), battery_entry, charger_entry)
             ELSE extract_loop_first(Tail(entries),
                      IF is_battery_entry(entry) /\ IsNone(battery_entry)
                      THEN entry ELSE battery_entry,
                      IF is_charger_entry(entry) /\ IsNone(charger_entry)
                      THEN entry ELSE charger_entry)

\* battery_entry and charger_entry after the loop over the entries
RECURSIVE extract_loop(_, _, _)
extract_loop(entries, battery_entry, charger_entry) ==
    IF Len(entries) = 0 THEN [battery_entry |-> battery_entry, charger_entry |-> charger_entry]
    ELSE LET entry == Head(entries)
         IN  IF ~IsDict(entry)
             THEN extract_loop(Tail(entries), battery_entry, charger_entry)
             ELSE extract_loop(Tail(entries),
                      IF is_battery_entry(entry) THEN entry ELSE battery_entry,
                      IF is_charger_entry(entry) THEN entry ELSE charger_entry)

\* the fields read from the retained battery entry
battery_fields(battery_entry) ==
    LET charge == DictGet(battery_entry, "sppower_battery_charge_info", PyDict(EmptyBag))
        health == DictGet(battery_entry, "sppower_battery_health_info", PyDict(EmptyBag))
        model == DictGet(battery_entry, "sppower_battery_model_info", PyDict(EmptyBag))
    IN  [current_capacity |-> to_int(DictGet(charge, "sppower_battery_current_capacity", None)),
         max_capacity     |-> to_int(DictGet(charge, "sppower_battery_max_capacity", None)),
         fully_charged    |-> DictGet(charge, "sppower_battery_fully_charged", None),
         is_charging      |-> DictGet(charge, "sppower_battery_is_charging", None),
         cycle_count      |-> to_int(DictGet(health, "sppower_battery_cycle_count", None)),
         health           |-> DictGet(health, "sppower_battery_health", None),
         battery_serial   |-> DictGet(model, "sppower_battery_serial_number", None),
         voltage_mV       |-> to_int(DictGet(battery_entry, "sppower_current_voltage", None)),
         amperage_mA      |-> to_int(DictGet(battery_entry, "sppower_current_amperage", None))]

\* the fields read from the retained charger entry
charger_fields(charger_entry) ==
    [charger_name         |-> DictGet(charger_entry, "sppower_ac_charger_name", None),
     charger_manufacturer |-> DictGet(charger_entry, "sppower_ac_charger_manufacturer", None),
     charger_serial       |-> DictGet(charger_entry, "sppower_ac_charger_serial_number", None),
     charger_watts        |-> to_int(DictGet(charger_entry, "sppower_ac_charger_watts", None)),
     charger_connected    |-> DictGet(charger_entry, "sppower_battery_charger_connected", None),
     charger_is_charging  |-> DictGet(charger_entry, "sppower_battery_is_charging", None)]

\* the exception extract_battery_and_charger raises, "" when it returns:
\* .get on a value that is not an object, or a loop over a value that cannot
\* be iterated
extract_error(report) ==
    IF ~IsDict(report) THEN "AttributeError"
    ELSE LET entries == DictGet(report, "SPPowerDataType", PyList(<<>>))
         IN  IF entries.t \notin {"dict", "list", "str"} THEN "TypeError"
             ELSE LET battery_entry == extract_loop(entries_of(report), None, None).battery_entry
                  IN  IF /\ Truthy(battery_entry)
                         /\ \E k \in {"sppower_battery_charge_info",
                                       "sppower_battery_health_info",
                                       "sppower_battery_model_info"} :
                                ~IsDict(DictGet(battery_entry, k, PyDict(EmptyBag)))
                      THEN "AttributeError"
                      ELSE ""

extract_battery_and_charger(report) ==
    LET kept == extract_loop(entries_of(report), None, None)
        with_battery == IF Truthy(kept.battery_entry)
                        THEN battery_fields(kept.battery_entry) @@ EmptyDetail
                        ELSE EmptyDetail
    IN  IF Truthy(kept.charger_entry)
        THEN charger_fields(kept.charger_entry) @@ with_battery
        ELSE with_battery

str_61W == <<54, 49, 87, 32, 85, 83, 66, 45, 67, 32, 80, 111, 119, 101, 114, 32, 65, 100, 97, 112, 116, 101, 114>>

str_spmachine == <<66, 97, 116, 116, 101, 114, 121, 32, 73, 110, 102, 111, 114, 109, 97, 116, 105, 111, 110>>

\* the entries system_profiler prints, and values that are not objects
SpEntries ==
    {PyDict([sppower_battery_charge_info |->
                PyDict([sppower_battery_current_capacity |-> PyInt(4000),
                        sppower_battery_max_capacity |-> PyInt(5000)]),
             sppower_current_voltage |-> PyInt(12000)]),
     PyDict([sppower_battery_charge_info |->
                PyDict([sppower_battery_current_capacity |-> PyInt(3000),
                        sppower_battery_is_charging |-> PyStr(str_TRUE)]),
             sppower_battery_health_info |->
                PyDict([sppower_battery_health |-> PyStr(str_Good),
                        sppower_battery_cycle_count |-> PyInt(10)])]),
     PyDict([sppower_battery_charge_info |-> PyDict(EmptyBag)]),
     PyDict([sppower_battery_charger_connected |-> PyStr(str_TRUE),
             sppower_ac_charger_watts |-> PyInt(96),
             sppower_ac_charger_name |-> PyStr(str_61W)]),
     PyDict([sppower_ac_charger_watts |-> PyInt(30)]),
     PyDict([sppower_battery_charger_connected |-> PyStr(str_FALSE)]),
     PyDict([sppower_battery_charge_info |->
                PyDict([sppower_battery_current_capacity |-> PyInt(1000)]),
             sppower_battery_charger_connected |-> PyStr(str_TRUE),
             sppower_battery_is_charging |-> PyStr(str_TRUE)]),
     PyDict([_name |-> PyStr(str_spmachine)]),
     PyStr(str_spmachine),
     PyDict([sppower_battery_charge_info |-> None,
             sppower_current_voltage |-> PyInt(11000)]),
     PyDict([sppower_battery_charge_info |->
                PyDict([sppower_battery_current_capacity |-> PyInt(2000)]),
             sppower_battery_health_info |-> PyStr(str_Good),
             sppower_current_voltage |-> PyInt(11500)])}

MaxEntries == 3

RECURSIVE SeqsUpTo(_, _)
SeqsUpTo(S, n) ==
    IF n = 0 THEN {<<>>}
    ELSE LET shorter == SeqsUpTo(S, n - 1)
         IN  shorter \cup {Append(q, x) : q \in {r \in shorter : Len(r) = n - 1}, x \in S}

\* what json.loads returns for a report: an entry list, a single entry in
\* place of the list, an object without the list, an object whose list is a
\* number or null, or a value that is not an object
SpReports ==
    {PyDict([SPPowerDataType |-> PyList(l)]) : l \in SeqsUpTo(SpEntries, MaxEntries)}
      \cup {PyDict([SPPowerDataType |-> e]) : e \in {x \in SpEntries : IsDict(x)}}
      \cup {PyDict([_name |-> PyStr(str_spmachine)])}
      \cup {PyDict([SPPowerDataType |-> PyInt(5)]), PyDict([SPPowerDataType |-> None])}
      \cup {PyList(<<>>), PyList(<<PyDict([_name |-> PyStr(str_spmachine)])>>), PyInt(5)}

ExtractInit ==
    /\ pc = "sp_read"
    /\ sp \in SpReports
    /\ detail = EmptyBag /\ io_dict = EmptyBag /\ data = EmptyBag
    /\ today_year = MaxCurrentYear
    /\ fn = "" /\ arg = None /\ ret = None /\ reg_bytes = <<>>
    /\ battery = EmptyBag /\ out = EmptyBag
    /\ pmset_info = EmptyBag /\ view = EmptyBag
    /\ env = EmptyBag /\ invoked = <<>> /\ exit_status = None /\ capture = EmptyBag
    /\ devices = <<>> /\ printed = <<>> /\ device = NoDevice

\* detail = extract_battery_and_charger(sp) if sp else {}
ExtractBatteryAndCharger ==
    /\ pc = "sp_read"
    /\ IF Truthy(sp) /\ extract_error(sp) # ""
       THEN pc' = "raised" /\ detail' = detail
       ELSE /\ detail' = IF Truthy(sp) THEN extract_battery_and_charger(sp) ELSE EmptyBag
            /\ pc' = "extracted"
    /\ UNCHANGED <<io_dict, today_year, fn, arg, ret, reg_bytes, battery, out, data,
                   viewvars, procvars>>

ExtractNext == ExtractBatteryAndCharger

SpecExtract == ExtractInit /\ [][ExtractNext]_vars

----------------------------------------------------------------------------
(* The host pass of main(): structured report, then register adapter *)

HostInit ==
    /\ pc = "extracted"
    /\ detail \in SpDetails
    /\ io_dict = EmptyBag
    /\ today_year \in CurrentYears
    /\ fn = "" /\ arg = None /\ ret = None /\ reg_bytes = <<>>
    /\ battery = EmptyBag /\ out = EmptyBag /\ data = EmptyBag
    /\ NoProcess

\* detail = enrich_with_ioreg(detail)
EnrichWithIoreg ==
    /\ pc = "extracted"
    /\ \E io \in IoDicts :
          /\ io_dict' = io
          /\ detail' \in enrich_with_ioreg(detail, io, today_year)
    /\ pc' = "enriched"
    /\ UNCHANGED <<today_year, fn, arg, ret, reg_bytes, battery, out, data, viewvars, procvars>>

HostNext == EnrichWithIoreg

SpecHost == HostInit /\ [][HostNext]_vars


----------------------------------------------------------------------------
(* Calls of the pure helpers on arbitrary scalars *)

MaxOffset == 3

str_12 == <<49, 50>>

\* integers around 0, 2^63 and 2^64, and scalars int() rejects or converts
SignedInputs ==
    {PyBig(k, n) : k \in -1..3, n \in (0 - MaxOffset)..MaxOffset}
      \cup {None, True, False, PyFloat(25), PyFloat(-25), PyStr(str_hot),
            PyStr(str_12), PyStr(<<45, 49, 50>>), PyStr(<<>>)}

\* register contents, as the bytes stored by the controller
RegisterBytes == PackedDates \cup OddLengths

FnInit ==
    /\ pc = "idle"
    /\ today_year \in CurrentYears
    /\ fn = "" /\ arg = None /\ ret = None /\ reg_bytes = <<>>
    /\ detail = EmptyBag /\ io_dict = EmptyBag
    /\ battery = EmptyBag /\ out = EmptyBag /\ data = EmptyBag
    /\ NoProcess

CallToIntSigned64 ==
    /\ pc = "idle"
    /\ \E v \in SignedInputs :
          /\ arg' = v
          /\ ret' = to_int_signed_64(v)
    /\ fn' = "to_int_signed_64"
    /\ pc' = "returned"
    /\ UNCHANGED <<detail, io_dict, today_year, reg_bytes, battery, out, data, viewvars, procvars>>

\* _decode_manufacture_date on the text ioreg prints for a register
CallDecodePacked ==
    /\ pc = "idle"
    /\ \E b \in RegisterBytes :
          /\ reg_bytes' = b
          /\ arg' = PyStr(PackedLiteral(b))
          /\ ret' = _decode_manufacture_date(PyStr(PackedLiteral(b)), today_year)
    /\ fn' = "_decode_manufacture_date"
    /\ pc' = "returned"
    /\ UNCHANGED <<detail, io_dict, today_year, battery, out, data, viewvars, procvars>>

\* _decode_manufacture_date on a scalar that is not a digit string
CallDecodeScalar ==
    /\ pc = "idle"
    /\ \E v \in {None, PyStr(str_hot), PyStr(<<>>), PyInt(-5), PyInt(50), True,
                 PyFloat(505)} :
          /\ arg' = v
          /\ ret' = _decode_manufacture_date(v, today_year)
    /\ reg_bytes' = <<>>
    /\ fn' = "_decode_manufacture_date"
    /\ pc' = "returned"
    /\ UNCHANGED <<detail, io_dict, today_year, battery, out, data, viewvars, procvars>>

FnNext == CallToIntSigned64 \/ CallDecodePacked \/ CallDecodeScalar

SpecFn == FnInit /\ [][FnNext]_vars


----------------------------------------------------------------------------
(* External-device path: build_ios_views *)

\* variant: the test of the loop is the value's truth, not "is not None"
is_present_truthy(d, key) == key \in DOMAIN d /\ Truthy(d[key])

\* the test of the loop:  key in data and data[key] is not None
is_present(d, key) == key \in DOMAIN d /\ ~IsNone(d[key])

RECURSIVE _first_present(_, _)
_first_present(d, keys) ==
    IF Len(keys) = 0 THEN None
    ELSE IF is_present(d, Head(keys)) THEN d[Head(keys)]
    ELSE _first_present(d, Tail(keys))

_first_int(d, keys) == to_int(_first_present(d, keys))

\* the two helpers called on their own, on bags over the aliases of the
\* percent field and on every alias list of up to MaxAliases names
AliasKeys == {"BatteryCurrentCapacity", "BatteryPercent", "BatteryLevel"}

AliasValues == {None, PyInt(0), PyBool(FALSE), PyInt(80), PyStr(str_hot)}

AliasBags == UNION {[S -> AliasValues] : S \in SUBSET AliasKeys}

MaxAliases == 3

AliasLists == UNION {[1..n -> AliasKeys] : n \in 0..MaxAliases}

AliasInit ==
    /\ pc = "idle"
    /\ today_year = MinCurrentYear
    /\ fn = "" /\ arg = None /\ ret = None /\ reg_bytes = <<>>
    /\ detail = EmptyBag /\ io_dict = EmptyBag
    /\ battery = EmptyBag /\ out = EmptyBag
    /\ data \in AliasBags
    /\ NoProcess

CallFirstPresent ==
    /\ pc = "idle"
    /\ \E keys \in AliasLists :
          /\ arg' = PyList(keys)
          /\ ret' = _first_present(data, keys)
    /\ fn' = "_first_present"
    /\ pc' = "returned"
    /\ UNCHANGED <<detail, io_dict, today_year, reg_bytes, battery, out, data, viewvars, procvars>>

CallFirstInt ==
    /\ pc = "idle"
    /\ \E keys \in AliasLists :
          /\ arg' = PyList(keys)
          /\ ret' = _first_int(data, keys)
    /\ fn' = "_first_int"
    /\ pc' = "returned"
    /\ UNCHANGED <<detail, io_dict, today_year, reg_bytes, battery, out, data, viewvars, procvars>>

AliasNext == CallFirstPresent \/ CallFirstInt

SpecAlias == AliasInit /\ [][AliasNext]_vars

_to_bool(value) ==
    IF value.t = "none" THEN None
    ELSE IF value.t = "bool" THEN value
    ELSE IF value.t = "int"
         THEN (IF value.k = 0 /\ value.n \in {0, 1} THEN PyBool(value.n = 1) ELSE None)
    ELSE LET s == Lower(Strip(PyStrOf(value)))
         IN  IF s \in {<<116, 114, 117, 101>>, <<121, 101, 115>>, <<49>>} THEN True
             ELSE IF s \in {<<102, 97, 108, 115, 101>>, <<110, 111>>, <<48>>} THEN False
             ELSE None

\* the status chosen from the three flags
ios_is_charging(d) == _to_bool(_first_present(d, <<"BatteryIsCharging", "IsCharging", "Charging">>))

ios_fully_charged(d) == _to_bool(_first_present(d, <<"BatteryIsFullyCharged", "FullyCharged">>))

ios_external_connected(d) ==
    _to_bool(_first_present(d, <<"ExternalConnected", "ExternalPowerConnected">>))

str_fully_charged == <<102, 117, 108, 108, 121, 32, 99, 104, 97, 114, 103, 101, 100>>

str_charging == <<99, 104, 97, 114, 103, 105, 110, 103>>

str_discharging == <<100, 105, 115, 99, 104, 97, 114, 103, 105, 110, 103>>

str_connected == <<99, 111, 110, 110, 101, 99, 116, 101, 100>>

ios_status(fully_charged, is_charging, external_connected) ==
    IF fully_charged = True THEN PyStr(str_fully_charged)
    ELSE IF is_charging = True THEN PyStr(str_charging)
    ELSE IF is_charging = False THEN PyStr(str_discharging)
    ELSE IF external_connected = True THEN PyStr(str_connected)
    ELSE PyStr(str_Unknown)

\* None for a negative count, else "H:MM"
_minutes_to_hhmm(minutes) ==
    IF minutes.n < 0 THEN None
    ELSE PyStr(DecimalOfNat(minutes.n \div 60) \o <<58>> \o TwoDigits(minutes.n % 60))

str_until_full == <<32, 117, 110, 116, 105, 108, 32, 102, 117, 108, 108>>

str_remaining == <<32, 114, 101, 109, 97, 105, 110, 105, 110, 103>>

ios_time_remaining(d) ==
    LET time_to_full == _first_int(d, <<"BatteryTimeToFull", "TimeToFull">>)
        time_to_empty == _first_int(d, <<"BatteryTimeToEmpty", "TimeToEmpty">>)
    IN  IF ~IsNone(time_to_full) /\ ios_is_charging(d) = True
        THEN (IF Truthy(_minutes_to_hhmm(time_to_full))
              THEN PyStr(_minutes_to_hhmm(time_to_full).s \o str_until_full) ELSE None)
        ELSE IF ~IsNone(time_to_empty)
        THEN (IF Truthy(_minutes_to_hhmm(time_to_empty))
              THEN PyStr(_minutes_to_hhmm(time_to_empty).s \o str_remaining) ELSE None)
        ELSE None

str_USB_iOS == <<85, 83, 66, 32, 40, 105, 79, 83, 41>>

\* the summary dict build_ios_views returns beside the detail dict
ios_pmset_info(d) ==
    LET percent == _first_int(d, <<"BatteryCurrentCapacity", "BatteryPercent",
                                   "BatteryLevel", "CurrentCapacityPercent">>)
    IN  [source         |-> PyStr(str_USB_iOS),
         percent        |-> IF ~IsNone(percent) THEN PyStr(PyStrOf(percent)) ELSE None,
         status         |-> ios_status(ios_fully_charged(d), ios_is_charging(d),
                                       ios_external_connected(d)),
         time_remaining |-> ios_time_remaining(d)]

\* the detail dict before the health percentage is derived
ios_detail(d) ==
    [device_type         |-> PyStr(<<105, 111, 115>>),
     current_capacity    |-> _first_int(d, <<"CurrentCapacity", "BatteryCurrentCapacityRaw">>),
     max_capacity        |-> _first_int(d, <<"NominalChargeCapacity", "BatteryCapacity",
                                             "MaxCapacity", "FullChargeCapacity">>),
     design_capacity     |-> _first_int(d, <<"DesignCapacity">>),
     fully_charged       |-> ios_fully_charged(d),
     is_charging         |-> ios_is_charging(d),
     cycle_count         |-> _first_int(d, <<"CycleCount", "BatteryCycleCount">>),
     health              |-> _first_present(d, <<"BatteryHealth", "BatteryHealthStatus">>),
     battery_serial      |-> _first_present(d, <<"Serial", "BatterySerial", "BatterySerialNumber">>),
     voltage_mV          |-> _first_int(d, <<"BatteryVoltage", "Voltage">>),
     amperage_mA         |-> _first_int(d, <<"Amperage", "InstantAmperage", "BatteryAmperage">>),
     temperature_c       |-> None,
     temperature_raw     |-> _first_present(d, <<"BatteryTemperature", "Temperature">>),
     manufacture_date    |-> _first_present(d, <<"ManufactureDate", "ManufactureDateRaw">>),
     charging_watts      |-> None,
     charger_name        |-> None,
     charger_watts       |-> None,
     charger_manufacturer |-> None,
     charger_serial      |-> None,
     charger_connected   |-> ios_external_connected(d),
     charger_is_charging |-> ios_is_charging(d)]

\* every detail dict build_ios_views can return for this bag
build_ios_views(d) ==
    LET det == ios_detail(d)
        max_cap == det.max_capacity
        design == det.design_capacity
    IN  IF Truthy(max_cap) /\ Truthy(design)
             /\ max_cap.t = "int" /\ design.t = "int" /\ Positive(design)
        THEN {("health_pct" :> PyFloat(h)) @@ det : h \in RoundPct(max_cap.n, design.n)}
        ELSE {det}

\* what parse_ideviceinfo_kv can put in the bag
IosValues ==
    [NominalChargeCapacity |-> {PyInt(0), PyInt(4000), PyInt(3333)},
     MaxCapacity           |-> {PyInt(4500)},
     DesignCapacity        |-> {PyInt(0), PyInt(5000), PyInt(-5000), PyStr(str_hot)},
     BatteryIsCharging     |-> {True, False},
     BatteryIsFullyCharged |-> {True, False},
     ExternalConnected     |-> {True, False},
     CycleCount            |-> {PyInt(10)}]

MaxIosKeys == 3

IosBags == Bags(DOMAIN IosValues, IosValues, MaxIosKeys)

IosInit ==
    /\ pc = "ios_captured"
    /\ data \in IosBags
    /\ detail = EmptyBag /\ io_dict = EmptyBag
    /\ today_year = MaxCurrentYear
    /\ fn = "" /\ arg = None /\ ret = None /\ reg_bytes = <<>>
    /\ battery = EmptyBag /\ out = EmptyBag
    /\ NoProcess

\* variant: the fields of the record at hand are kept under the device's
BuildIosViewsCarried ==
    /\ pc = "ios_captured"
    /\ detail' \in {[device_name |-> device.name, device_udid |-> device.udid] @@ d @@ detail :
                       d \in build_ios_views(data)}
    /\ pmset_info' = ios_pmset_info(data)
    /\ pc' = "ios_built"
    /\ UNCHANGED <<io_dict, today_year, fn, arg, ret, reg_bytes, battery, out, data,
                   sp, view, procvars>>

\* pmset_info, detail = build_ios_views(data, device_name, udid, raw)
BuildIosViews ==
    /\ pc = "ios_captured"
    /\ detail' \in {[device_name |-> device.name, device_udid |-> device.udid] @@ d :
                       d \in build_ios_views(data)}
    /\ pmset_info' = ios_pmset_info(data)
    /\ pc' = "ios_built"
    /\ UNCHANGED <<io_dict, today_year, fn, arg, ret, reg_bytes, battery, out, data,
                   sp, view, procvars>>

IosNext == BuildIosViews

SpecIos == IosInit /\ [][IosNext]_vars

----------------------------------------------------------------------------
(* Rendering: the classified cells of the battery table *)

\* a cell: its text and the colour it is printed in ("" for an unstyled cell)
Cell(text, style) == [text |-> text, style |-> style]

rich_percent_cell(percent_str) ==
    IF IsNone(percent_str) THEN Cell(str_Unknown, "")
    ELSE LET p == IntOfStr(percent_str.s)
         IN  IF IsNone(p) THEN Cell(percent_str.s \o <<37>>, "")
             ELSE IF p.n >= 80 THEN Cell(PyStrOf(p) \o <<37>>, "green")
             ELSE IF p.n >= 40 THEN Cell(PyStrOf(p) \o <<37>>, "yellow")
             ELSE Cell(PyStrOf(p) \o <<37>>, "red")

str_normal == <<110, 111, 114, 109, 97, 108>>

str_good == <<103, 111, 111, 100>>

str_soon == <<115, 111, 111, 110>>

str_service == <<115, 101, 114, 118, 105, 99, 101>>

str_replace == <<114, 101, 112, 108, 97, 99, 101>>

rich_health_cell(health) ==
    IF ~Truthy(health) THEN Cell(str_Unknown, "")
    ELSE LET h == Lower(health.s)
         IN  IF Contains(h, str_normal) \/ Contains(h, str_good) THEN Cell(health.s, "green")
             ELSE IF Contains(h, str_soon) \/ Contains(h, str_service) \/ Contains(h, str_replace)
             THEN Cell(health.s, "red")
             ELSE Cell(health.s, "yellow")

\* the label print_with_rich and print_plain hand to rich_health_cell
health_label(d) ==
    LET health == Get(d, "health")
        health_pct == Get(d, "health_pct")
        label == IF Truthy(health) THEN health ELSE PyStr(str_Unknown)
    IN  IF Truthy(health_pct)
        THEN (IF Truthy(health)
              THEN PyStr(label.s \o <<32, 40>> \o PyStrOf(health_pct) \o <<37, 41>>)
              ELSE PyStr(PyStrOf(health_pct) \o <<37>>))
        ELSE label

\* the Charge and Health rows render_output prints
render_output(info, d) ==
    [charge |-> rich_percent_cell(Get(info, "percent")),
     health |-> rich_health_cell(health_label(d))]

MaxPercent == 100

\* the percent field: the digits parse_pmset captured, str(int) from the
\* device path, or nothing
RenderPercents ==
    {None, PyStr(<<45, 53>>), PyStr(<<48, 56, 53>>)} \cup {PyStr(DecimalOfNat(x)) : x \in 0..MaxPercent}

\* the health label of the structured report or the device, if any
RenderHealths == {None, PyStr(<<>>)} \cup {PyStr(l) : l \in {str_Normal, str_Good, str_NORMAL, str_Service_Recommended, str_Replace_Soon, str_Check_Battery, str_Fair, str_Poor, str_Good_service_soon}}

RenderHealthPcts == {None, PyFloat(0), PyFloat(800), PyFloat(1000)}

RenderInit ==
    /\ pc = "enriched"
    /\ \E percent \in RenderPercents, health \in RenderHealths, health_pct \in RenderHealthPcts :
          /\ \/ percent = PyStr(<<56, 53>>)
             \/ (health = None /\ health_pct = None)
          /\ pmset_info = [percent |-> percent]
          /\ detail = IF IsNone(health_pct) THEN [health |-> health]
                      ELSE [health |-> health, health_pct |-> health_pct]
    /\ io_dict = EmptyBag /\ data = EmptyBag
    /\ today_year = MaxCurrentYear
    /\ fn = "" /\ arg = None /\ ret = None /\ reg_bytes = <<>>
    /\ battery = EmptyBag /\ out = EmptyBag
    /\ sp = None /\ view = EmptyBag
    /\ env = EmptyBag /\ invoked = <<>> /\ exit_status = None /\ capture = EmptyBag
    /\ devices = <<>> /\ printed = <<>> /\ device = NoDevice

\* render_output(pmset_info, detail, args.raw)
RenderOutput ==
    /\ pc \in {"enriched", "ios_built"}
    /\ view' = render_output(pmset_info, detail)
    /\ printed' = Append(printed, [kind |-> "record", udid |-> Get(detail, "device_udid")])
    /\ pc' = IF pc = "enriched" THEN "rendered" ELSE "ios_rendered"
    /\ UNCHANGED <<detail, io_dict, today_year, fn, arg, ret, reg_bytes, battery, out, data,
                   pmset_info, sp, env, invoked, exit_status, capture, devices, device>>

RenderNext == RenderOutput

SpecRender == RenderInit /\ [][RenderNext]_vars

----------------------------------------------------------------------------
(* The package: BatteryData and its calculators *)

\* str.isdigit()
isdigit(s) == Len(s) > 0 /\ AllDigits(s)

\* BatteryData.get_int(key), default 0
get_int(b, key) ==
    LET value == Get(b, key)
    IN  IF Truthy(value) /\ isdigit(value.s) THEN DecimalValue(value.s) ELSE 0

\* BatteryData.get_float(key), default 0.0, for the integer literals the
\* patterns capture
get_float(b, key) ==
    LET value == Get(b, key)
    IN  IF Truthy(value) THEN DecimalValue(value.s) ELSE 0

\* BatteryData.get_str(key), default ""
get_str(b, key) ==
    LET value == Get(b, key)
    IN  IF Truthy(value) THEN value.s ELSE <<>>

str_Charging == <<67, 104, 97, 114, 103, 105, 110, 103>>

str_Fully_Charged == <<70, 117, 108, 108, 121, 32, 67, 104, 97, 114, 103, 101, 100>>

str_Not_Charging == <<78, 111, 116, 32, 67, 104, 97, 114, 103, 105, 110, 103>>

str_Discharging == <<68, 105, 115, 99, 104, 97, 114, 103, 105, 110, 103>>

\* the status text of get_battery_status
get_battery_status(b) ==
    LET is_charging == get_str(b, "is_charging") = str_Yes
        external_connected == get_str(b, "external_connected") = str_Yes
        fully_charged == get_str(b, "fully_charged") = str_Yes
    IN  IF is_charging THEN PyStr(str_Charging)
        ELSE IF external_connected /\ fully_charged THEN PyStr(str_Fully_Charged)
        ELSE IF external_connected THEN PyStr(str_Not_Charging)
        ELSE PyStr(str_Discharging)

\* the float n / 100
PyCenti(n) == [t |-> "centi", k |-> 0, n |-> n, s |-> <<>>]

\* variant: the quotient is truncated to a tenth instead of rounded
calculate_battery_percentage_trunc(b) ==
    LET current == get_int(b, "current_capacity")
        max_cap == get_int(b, "max_capacity")
    IN  IF max_cap = 0 THEN {PyFloat(0)}
        ELSE {PyFloat((1000 * current) \div max_cap)}

calculate_battery_percentage(b) ==
    LET current == get_int(b, "current_capacity")
        max_cap == get_int(b, "max_capacity")
    IN  IF max_cap = 0 THEN {PyFloat(0)}
        ELSE {PyFloat(p) : p \in Round1(current * 100, max_cap)}

calculate_health_percentage(b) ==
    LET max_cap == get_int(b, "max_capacity")
        design_cap == get_int(b, "design_capacity")
    IN  IF design_cap = 0 THEN {PyFloat(0)}
        ELSE {PyFloat(p) : p \in Round1(max_cap * 100, design_cap)}

MaxCapacityValue == 16

\* what the patterns of _parse_ioreg capture: a digit string, or None
Captures(values) == {None} \cup {PyStr(DecimalOfNat(x)) : x \in values}

BatteryDatas ==
    {[current_capacity |-> c, max_capacity |-> m, design_capacity |-> d, temperature |-> t] :
        c \in Captures(0..MaxCapacityValue), m \in Captures(0..MaxCapacityValue),
        d \in Captures({0, 3, 7, MaxCapacityValue}), t \in Captures({3000, 3055})}

\* what the flag patterns (\w+) capture from the register dump
FlagCaptures == {None, PyStr(str_Yes), PyStr(str_No)}

\* captures that differ in the three flags
StatusDatas ==
    {[is_charging |-> c, external_connected |-> e, fully_charged |-> f, cycle_count |-> y] :
        c \in FlagCaptures, e \in FlagCaptures, f \in FlagCaptures, y \in Captures({0, 10})}

PkgInitWith(batteries) ==
    /\ pc = "pkg_captured"
    /\ battery \in batteries
    /\ detail = EmptyBag /\ io_dict = EmptyBag /\ data = EmptyBag
    /\ today_year = MaxCurrentYear
    /\ fn = "" /\ arg = None /\ ret = None /\ reg_bytes = <<>>
    /\ out = EmptyBag
    /\ NoProcess

PkgInit == PkgInitWith(BatteryDatas)

\* display_battery_status(json_output=True): the data dict it prints
DisplayBatteryStatus ==
    /\ pc = "pkg_captured"
    /\ \E p \in calculate_battery_percentage(battery),
          h \in calculate_health_percentage(battery) :
          out' = [percentage |-> p,
                  health |-> h,
                  status |-> get_battery_status(battery),
                  is_charging |-> PyBool(get_str(battery, "is_charging") = str_Yes),
                  external_connected |-> PyBool(get_str(battery, "external_connected") = str_Yes),
                  fully_charged |-> PyBool(get_str(battery, "fully_charged") = str_Yes),
                  cycles |-> PyInt(get_int(battery, "cycle_count")),
                  temperature_celsius |-> PyCenti(get_float(battery, "temperature")),
                  amperage |-> PyInt(get_int(battery, "amperage"))]
    /\ pc' = "pkg_displayed"
    /\ UNCHANGED <<detail, io_dict, today_year, fn, arg, ret, reg_bytes, battery, data, viewvars, procvars>>

\* percentage in tenths
get_battery_color(percentage) ==
    IF percentage.n <= 200 THEN "red"
    ELSE IF percentage.n <= 400 THEN "orange"
    ELSE IF percentage.n <= 600 THEN "yellow"
    ELSE "green"

get_health_color(health_percentage) ==
    IF health_percentage.n <= 600 THEN "red"
    ELSE IF health_percentage.n <= 800 THEN "yellow"
    ELSE "green"

\* display_battery_status(verbose=True): the values and colours it prints
DisplayBatteryStatusVerbose ==
    /\ pc = "pkg_captured"
    /\ \E p \in calculate_battery_percentage(battery),
          h \in calculate_health_percentage(battery) :
          view' = [percentage |-> p,
                   health_percentage |-> h,
                   status_text |-> get_battery_status(battery),
                   battery_color |-> get_battery_color(p),
                   health_color |-> get_health_color(h)]
    /\ pc' = "pkg_rendered"
    /\ UNCHANGED <<detail, io_dict, today_year, fn, arg, ret, reg_bytes, battery, out, data,
                   pmset_info, sp, procvars>>

PkgNext == DisplayBatteryStatus \/ DisplayBatteryStatusVerbose

SpecPkg == PkgInit /\ [][PkgNext]_vars

\* the charging status, on both paths that compute one
StatusInit == IosInit \/ PkgInitWith(StatusDatas)

StatusNext == IosNext \/ PkgNext

SpecStatus == StatusInit /\ [][StatusNext]_vars

\* the charge-level colour, in the script and in the package
BandInit == RenderInit \/ PkgInit

BandNext == RenderNext \/ PkgNext

SpecBand == BandInit /\ [][BandNext]_vars

----------------------------------------------------------------------------
(* The package's register dump: BatteryData._parse_ioreg *)

\* the patterns of _parse_ioreg: a literal prefix, an optional minus sign, a
\* run of one character class of at least `least` characters, a literal tail
patterns ==
    <<[key |-> "current_capacity", prefix |-> <<34, 67, 117, 114, 114, 101, 110, 116, 67, 97, 112, 97, 99, 105, 116, 121, 34, 32, 61, 32>>,
       minus |-> FALSE, cls |-> "digit", least |-> 1, tail |-> <<>>],
      [key |-> "max_capacity", prefix |-> <<34, 77, 97, 120, 67, 97, 112, 97, 99, 105, 116, 121, 34, 32, 61, 32>>,
       minus |-> FALSE, cls |-> "digit", least |-> 1, tail |-> <<>>],
      [key |-> "design_capacity", prefix |-> <<34, 68, 101, 115, 105, 103, 110, 67, 97, 112, 97, 99, 105, 116, 121, 34, 32, 61, 32>>,
       minus |-> FALSE, cls |-> "digit", least |-> 1, tail |-> <<>>],
      [key |-> "cycle_count", prefix |-> <<34, 67, 121, 99, 108, 101, 67, 111, 117, 110, 116, 34, 32, 61, 32>>,
       minus |-> FALSE, cls |-> "digit", least |-> 1, tail |-> <<>>],
      [key |-> "temperature", prefix |-> <<34, 84, 101, 109, 112, 101, 114, 97, 116, 117, 114, 101, 34, 32, 61, 32>>,
       minus |-> FALSE, cls |-> "digit", least |-> 1, tail |-> <<>>],
      [key |-> "voltage", prefix |-> <<34, 86, 111, 108, 116, 97, 103, 101, 34, 32, 61, 32>>,
       minus |-> FALSE, cls |-> "digit", least |-> 1, tail |-> <<>>],
      [key |-> "amperage", prefix |-> <<34, 65, 109, 112, 101, 114, 97, 103, 101, 34, 32, 61, 32>>,
       minus |-> TRUE, cls |-> "digit", least |-> 1, tail |-> <<>>],
      [key |-> "is_charging", prefix |-> <<34, 73, 115, 67, 104, 97, 114, 103, 105, 110, 103, 34, 32, 61, 32>>,
       minus |-> FALSE, cls |-> "word", least |-> 1, tail |-> <<>>],
      [key |-> "external_connected", prefix |-> <<34, 69, 120, 116, 101, 114, 110, 97, 108, 67, 111, 110, 110, 101, 99, 116, 101, 100, 34, 32, 61, 32>>,
       minus |-> FALSE, cls |-> "word", least |-> 1, tail |-> <<>>],
      [key |-> "fully_charged", prefix |-> <<34, 70, 117, 108, 108, 121, 67, 104, 97, 114, 103, 101, 100, 34, 32, 61, 32>>,
       minus |-> FALSE, cls |-> "word", least |-> 1, tail |-> <<>>],
      [key |-> "time_remaining", prefix |-> <<34, 84, 105, 109, 101, 82, 101, 109, 97, 105, 110, 105, 110, 103, 34, 32, 61, 32>>,
       minus |-> TRUE, cls |-> "digit", least |-> 1, tail |-> <<>>],
      [key |-> "serial", prefix |-> <<34, 83, 101, 114, 105, 97, 108, 34, 32, 61, 32, 34>>,
       minus |-> FALSE, cls |-> "alnum", least |-> 0, tail |-> <<34>>],
      [key |-> "adapter_name", prefix |-> <<34, 78, 97, 109, 101, 34, 32, 61, 32, 34>>,
       minus |-> FALSE, cls |-> "name", least |-> 0, tail |-> <<34>>],
      [key |-> "adapter_watts", prefix |-> <<34, 87, 97, 116, 116, 115, 34, 32, 61, 32>>,
       minus |-> FALSE, cls |-> "digit", least |-> 1, tail |-> <<>>]>>

IsAlnum(c) == IsDigit(c) \/ (65 <= c /\ c <= 90) \/ (97 <= c /\ c <= 122)

\* \d, \w, [A-Za-z0-9], [A-Za-z0-9 -]
InClass(c, cls) ==
    CASE cls = "digit" -> IsDigit(c)
      [] cls = "word"  -> IsAlnum(c) \/ c = 95
      [] cls = "alnum" -> IsAlnum(c)
      [] cls = "name"  -> IsAlnum(c) \/ c = 32 \/ c = 45

\* the length of the longest run of the class that starts at position k
RunLen(s, k, cls) ==
    CHOOSE n \in 0..(Len(s) + 1 - k) :
        /\ \A i \in k..(k + n - 1) : InClass(s[i], cls)
        /\ (k + n > Len(s) \/ ~InClass(s[k + n], cls))

\* the pattern p tried at position i of s: whether it matches, and group(1)
match_at(s, i, p) ==
    LET j == i + Len(p.prefix)
        k == IF p.minus /\ j <= Len(s) /\ s[j] = 45 THEN j + 1 ELSE j
        n == IF k <= Len(s) + 1 THEN RunLen(s, k, p.cls) ELSE 0
        e == k + n
    IN  IF /\ j - 1 <= Len(s)
           /\ SubSeq(s, i, j - 1) = p.prefix
           /\ n >= p.least
           /\ e + Len(p.tail) - 1 <= Len(s)
           /\ SubSeq(s, e, e + Len(p.tail) - 1) = p.tail
        THEN [hit |-> TRUE, group |-> SubSeq(s, j, e - 1)]
        ELSE [hit |-> FALSE, group |-> <<>>]

\* re.search(pattern, output): group(1) of the leftmost match, or None
re_search(output, p) ==
    LET hits == {i \in 1..Len(output) : match_at(output, i, p).hit}
    IN  IF hits = {} THEN None
        ELSE PyStr(match_at(output, CHOOSE i \in hits : \A h \in hits : i <= h, p).group)

\* BatteryData._parse_ioreg(output): every key of the patterns, None where
\* the pattern does not match
_parse_ioreg(output) ==
    [key \in {patterns[i].key : i \in 1..Len(patterns)} |->
        re_search(output, patterns[CHOOSE i \in 1..Len(patterns) : patterns[i].key = key])]

\* lines of a register dump
DumpLines ==
    {<<34, 65, 109, 112, 101, 114, 97, 103, 101, 34, 32, 61, 32, 45, 50, 48, 48, 10>>,
     <<34, 65, 109, 112, 101, 114, 97, 103, 101, 34, 32, 61, 32, 51, 53, 48, 10>>,
     <<34, 65, 109, 112, 101, 114, 97, 103, 101, 34, 32, 61, 32, 48, 10>>,
     <<34, 65, 109, 112, 101, 114, 97, 103, 101, 34, 32, 61, 32, 45, 49, 10>>,
     <<34, 73, 110, 115, 116, 97, 110, 116, 65, 109, 112, 101, 114, 97, 103, 101, 34, 32, 61, 32, 45, 55, 53, 10>>,
     <<34, 86, 111, 108, 116, 97, 103, 101, 34, 32, 61, 32, 49, 50, 48, 48, 48, 10>>,
     <<34, 73, 115, 67, 104, 97, 114, 103, 105, 110, 103, 34, 32, 61, 32, 78, 111, 10>>,
     <<34, 67, 117, 114, 114, 101, 110, 116, 67, 97, 112, 97, 99, 105, 116, 121, 34, 32, 61, 32, 52, 48, 10>>,
     <<34, 77, 97, 120, 67, 97, 112, 97, 99, 105, 116, 121, 34, 32, 61, 32, 53, 48, 10>>,
     <<34, 83, 101, 114, 105, 97, 108, 34, 32, 61, 32, 34, 65, 66, 49, 50, 34, 10>>}

MaxDumpLines == 2

RECURSIVE DumpsOf(_)
DumpsOf(n) ==
    IF n = 0 THEN {<<>>}
    ELSE DumpsOf(n - 1) \cup {d \o l : d \in DumpsOf(n - 1), l \in DumpLines}

DumpTexts == DumpsOf(MaxDumpLines)

DumpInit ==
    /\ pc = "pkg_dump"
    /\ reg_bytes \in DumpTexts
    /\ battery = EmptyBag
    /\ detail = EmptyBag /\ io_dict = EmptyBag /\ data = EmptyBag
    /\ today_year = MaxCurrentYear
    /\ fn = "" /\ arg = None /\ ret = None
    /\ out = EmptyBag
    /\ NoProcess

\* get_battery_data(): BatteryData(result.stdout)
GetBatteryData ==
    /\ pc = "pkg_dump"
    /\ battery' = _parse_ioreg(reg_bytes)
    /\ pc' = "pkg_captured"
    /\ UNCHANGED <<detail, io_dict, today_year, fn, arg, ret, reg_bytes, out, data, viewvars, procvars>>

DumpNext == GetBatteryData \/ DisplayBatteryStatus

SpecDump == DumpInit /\ [][DumpNext]_vars

----------------------------------------------------------------------------
(* Register values: _parse_ioreg_value, then to_int *)

str_inf == <<105, 110, 102>>

str_infinity == <<105, 110, 102, 105, 110, 105, 116, 121>>

str_nan == <<110, 97, 110>>

\* float(str) for the literals of the model: optional blanks, optional sign,
\* then inf, infinity or nan in any case, or digits with a point and at most
\* one digit after it; None stands for ValueError
FloatOfStr(s) ==
    LET b == Strip(s)
        signed == Len(b) > 0 /\ b[1] \in {43, 45}
        sign == IF signed /\ b[1] = 45 THEN 0 - 1 ELSE 1
        body == IF signed THEN Tail(b) ELSE b
        dot == Find(body, 1, {46})
        whole == SubSeq(body, 1, dot - 1)
        frac == SubSeq(body, dot + 1, Len(body))
    IN  IF Lower(body) \in {str_inf, str_infinity} THEN PyInf(sign)
        ELSE IF Lower(body) = str_nan THEN PyNaN
        ELSE IF /\ Len(whole) + Len(frac) > 0
                /\ AllDigits(whole) /\ AllDigits(frac) /\ Len(frac) <= 1
        THEN PyFloat(sign * (10 * DecimalValue(whole) + DecimalValue(frac)))
        ELSE None

_parse_ioreg_value(raw_val) ==
    LET raw == Strip(raw_val)
    IN  IF raw \in {str_Yes, str_No} THEN PyBool(raw = str_Yes)
        ELSE IF Len(raw) > 0 /\ raw[1] = 34 /\ raw[Len(raw)] = 34
        THEN PyStr(SubSeq(raw, 2, Len(raw) - 1))
        ELSE IF ~IsNone(IntOfStr(raw)) THEN IntOfStr(raw)
        ELSE IF ~IsNone(FloatOfStr(raw)) THEN FloatOfStr(raw)
        ELSE PyStr(raw)

\* the value texts of register lines: blanks, a sign, a body
RawBodies ==
    {<<48>>, <<52, 50>>, <<48, 48, 55>>, <<49, 50, 46, 53>>, <<51, 46, 48>>, <<46, 53>>, <<55, 46>>, <<105, 110, 102>>, <<73, 110, 102, 105, 110, 105, 116, 121>>, <<110, 97, 110>>, <<78, 97, 78>>,
     <<104, 111, 116>>, <<89, 101, 115>>, <<78, 111>>, <<34, 52, 50, 34>>, <<34>>, <<52, 32, 50>>, <<46>>}

RawValues ==
    {pad \o sign \o body : pad \in {<<>>, <<32>>}, sign \in {<<>>, <<43>>, <<45>>},
                           body \in RawBodies}

CoerceInit ==
    /\ pc = "idle"
    /\ today_year = MinCurrentYear
    /\ fn = "" /\ arg = None /\ ret = None
    /\ reg_bytes \in RawValues
    /\ detail = EmptyBag /\ io_dict = EmptyBag
    /\ battery = EmptyBag /\ out = EmptyBag /\ data = EmptyBag
    /\ NoProcess

\* flat[key] = _parse_ioreg_value(raw_val)
ParseIoregValue ==
    /\ pc = "idle"
    /\ arg' = _parse_ioreg_value(reg_bytes)
    /\ fn' = "_parse_ioreg_value"
    /\ pc' = "parsed"
    /\ UNCHANGED <<detail, io_dict, today_year, ret, reg_bytes, battery, out, data,
                   viewvars, procvars>>

\* to_int(io_dict.get(key)) on the parsed value, or on None for a missing key
CallToInt ==
    /\ pc = "parsed"
    /\ \E v \in {arg, None} :
          /\ arg' = v
          /\ IF to_int_raises(v)
             THEN pc' = "raised" /\ ret' = None
             ELSE pc' = "returned" /\ ret' = to_int(v)
    /\ fn' = "to_int"
    /\ UNCHANGED <<detail, io_dict, today_year, reg_bytes, battery, out, data,
                   viewvars, procvars>>

CoerceNext == ParseIoregValue \/ CallToInt

SpecCoerce == CoerceInit /\ [][CoerceNext]_vars

----------------------------------------------------------------------------
(* External-device adapter: parse_ideviceinfo_kv *)

str_true == <<116, 114, 117, 101>>

str_false == <<102, 97, 108, 115, 101>>

_parse_ideviceinfo_value(raw_val) ==
    LET raw == Strip(raw_val)
    IN  IF Lower(raw) \in {str_true, str_false} THEN PyBool(Lower(raw) = str_true)
        ELSE IF raw \in {str_Yes, str_No} THEN PyBool(raw = str_Yes)
        ELSE IF ~IsNone(IntOfStr(raw)) THEN IntOfStr(raw)
        ELSE IF ~IsNone(FloatOfStr(raw)) THEN FloatOfStr(raw)
        ELSE PyStr(raw)

\* variant: the line is split at its last colon
split_colon_last(line) ==
    LET i == CHOOSE j \in 1..Len(line) : line[j] = 58 /\ \A q \in (j + 1)..Len(line) : line[q] # 58
    IN  [key |-> SubSeq(line, 1, i - 1), raw |-> SubSeq(line, i + 1, Len(line))]

\* key, raw = line.split(":", 1)  for a line that has a colon
split_colon(line) ==
    LET i == Find(line, 1, {58})
    IN  [key |-> SubSeq(line, 1, i - 1), raw |-> SubSeq(line, i + 1, Len(line))]

\* the loop over the lines; the bag is keyed by the key texts
RECURSIVE kv_loop(_, _)
kv_loop(lines, bag) ==
    IF Len(lines) = 0 THEN bag
    ELSE LET line == Head(lines)
         IN  IF \A i \in 1..Len(line) : line[i] # 58
             THEN kv_loop(Tail(lines), bag)
             ELSE kv_loop(Tail(lines),
                          (Strip(split_colon(line).key)
                              :> _parse_ideviceinfo_value(split_colon(line).raw)) @@ bag)

parse_ideviceinfo_kv(text) == kv_loop(splitlines(text), EmptyBag)

\* the key texts build_ios_views looks up
IosKeyCodes ==
    [BatteryCurrentCapacity |-> <<66, 97, 116, 116, 101, 114, 121, 67, 117, 114, 114, 101, 110, 116, 67, 97, 112, 97, 99, 105, 116, 121>>,
     BatteryPercent |-> <<66, 97, 116, 116, 101, 114, 121, 80, 101, 114, 99, 101, 110, 116>>,
     BatteryLevel |-> <<66, 97, 116, 116, 101, 114, 121, 76, 101, 118, 101, 108>>,
     CurrentCapacityPercent |-> <<67, 117, 114, 114, 101, 110, 116, 67, 97, 112, 97, 99, 105, 116, 121, 80, 101, 114, 99, 101, 110, 116>>,
     BatteryIsCharging |-> <<66, 97, 116, 116, 101, 114, 121, 73, 115, 67, 104, 97, 114, 103, 105, 110, 103>>,
     IsCharging |-> <<73, 115, 67, 104, 97, 114, 103, 105, 110, 103>>,
     Charging |-> <<67, 104, 97, 114, 103, 105, 110, 103>>,
     BatteryIsFullyCharged |-> <<66, 97, 116, 116, 101, 114, 121, 73, 115, 70, 117, 108, 108, 121, 67, 104, 97, 114, 103, 101, 100>>,
     FullyCharged |-> <<70, 117, 108, 108, 121, 67, 104, 97, 114, 103, 101, 100>>,
     ExternalConnected |-> <<69, 120, 116, 101, 114, 110, 97, 108, 67, 111, 110, 110, 101, 99, 116, 101, 100>>,
     ExternalPowerConnected |-> <<69, 120, 116, 101, 114, 110, 97, 108, 80, 111, 119, 101, 114, 67, 111, 110, 110, 101, 99, 116, 101, 100>>,
     BatteryTimeToFull |-> <<66, 97, 116, 116, 101, 114, 121, 84, 105, 109, 101, 84, 111, 70, 117, 108, 108>>,
     TimeToFull |-> <<84, 105, 109, 101, 84, 111, 70, 117, 108, 108>>,
     BatteryTimeToEmpty |-> <<66, 97, 116, 116, 101, 114, 121, 84, 105, 109, 101, 84, 111, 69, 109, 112, 116, 121>>,
     TimeToEmpty |-> <<84, 105, 109, 101, 84, 111, 69, 109, 112, 116, 121>>,
     CurrentCapacity |-> <<67, 117, 114, 114, 101, 110, 116, 67, 97, 112, 97, 99, 105, 116, 121>>,
     BatteryCurrentCapacityRaw |-> <<66, 97, 116, 116, 101, 114, 121, 67, 117, 114, 114, 101, 110, 116, 67, 97, 112, 97, 99, 105, 116, 121, 82, 97, 119>>,
     NominalChargeCapacity |-> <<78, 111, 109, 105, 110, 97, 108, 67, 104, 97, 114, 103, 101, 67, 97, 112, 97, 99, 105, 116, 121>>,
     BatteryCapacity |-> <<66, 97, 116, 116, 101, 114, 121, 67, 97, 112, 97, 99, 105, 116, 121>>,
     MaxCapacity |-> <<77, 97, 120, 67, 97, 112, 97, 99, 105, 116, 121>>,
     FullChargeCapacity |-> <<70, 117, 108, 108, 67, 104, 97, 114, 103, 101, 67, 97, 112, 97, 99, 105, 116, 121>>,
     DesignCapacity |-> <<68, 101, 115, 105, 103, 110, 67, 97, 112, 97, 99, 105, 116, 121>>,
     CycleCount |-> <<67, 121, 99, 108, 101, 67, 111, 117, 110, 116>>,
     BatteryCycleCount |-> <<66, 97, 116, 116, 101, 114, 121, 67, 121, 99, 108, 101, 67, 111, 117, 110, 116>>,
     BatteryHealth |-> <<66, 97, 116, 116, 101, 114, 121, 72, 101, 97, 108, 116, 104>>,
     BatteryHealthStatus |-> <<66, 97, 116, 116, 101, 114, 121, 72, 101, 97, 108, 116, 104, 83, 116, 97, 116, 117, 115>>,
     Serial |-> <<83, 101, 114, 105, 97, 108>>,
     BatterySerial |-> <<66, 97, 116, 116, 101, 114, 121, 83, 101, 114, 105, 97, 108>>,
     BatterySerialNumber |-> <<66, 97, 116, 116, 101, 114, 121, 83, 101, 114, 105, 97, 108, 78, 117, 109, 98, 101, 114>>,
     BatteryVoltage |-> <<66, 97, 116, 116, 101, 114, 121, 86, 111, 108, 116, 97, 103, 101>>,
     Voltage |-> <<86, 111, 108, 116, 97, 103, 101>>,
     Amperage |-> <<65, 109, 112, 101, 114, 97, 103, 101>>,
     InstantAmperage |-> <<73, 110, 115, 116, 97, 110, 116, 65, 109, 112, 101, 114, 97, 103, 101>>,
     BatteryAmperage |-> <<66, 97, 116, 116, 101, 114, 121, 65, 109, 112, 101, 114, 97, 103, 101>>,
     BatteryTemperature |-> <<66, 97, 116, 116, 101, 114, 121, 84, 101, 109, 112, 101, 114, 97, 116, 117, 114, 101>>,
     Temperature |-> <<84, 101, 109, 112, 101, 114, 97, 116, 117, 114, 101>>,
     ManufactureDate |-> <<77, 97, 110, 117, 102, 97, 99, 116, 117, 114, 101, 68, 97, 116, 101>>,
     ManufactureDateRaw |-> <<77, 97, 110, 117, 102, 97, 99, 116, 117, 114, 101, 68, 97, 116, 101, 82, 97, 119>>]

\* the bag as build_ios_views reads it: data.get(name) for the names above
named_bag(bag) ==
    [name \in {n \in DOMAIN IosKeyCodes : IosKeyCodes[n] \in DOMAIN bag} |->
        bag[IosKeyCodes[name]]]

\* lines of the battery domain: a key, a colon, a value text
KvKeys == {<<66, 97, 116, 116, 101, 114, 121, 67, 117, 114, 114, 101, 110, 116, 67, 97, 112, 97, 99, 105, 116, 121>>, <<32, 32, 66, 97, 116, 116, 101, 114, 121, 67, 117, 114, 114, 101, 110, 116, 67, 97, 112, 97, 99, 105, 116, 121, 32>>, <<66, 97, 116, 116, 101, 114, 121, 73, 115, 67, 104, 97, 114, 103, 105, 110, 103>>}

KvRaws == {<<32, 116, 114, 117, 101>>, <<32, 70, 65, 76, 83, 69>>, <<32, 89, 101, 115>>, <<32, 110, 111>>, <<32, 56, 48>>, <<32, 45, 55, 32>>, <<32, 49, 46, 53>>, <<32, 49, 50, 58, 51, 48, 32>>, <<>>}

KvLines ==
    {k \o <<58>> \o r : k \in KvKeys, r \in KvRaws} \cup {<<110, 111, 32, 98, 97, 116, 116, 101, 114, 121>>, <<32, 58, 32>>}

MaxLines == 2

\* the texts of exactly n lines
RECURSIVE KvTextsOf(_)
KvTextsOf(n) ==
    IF n = 0 THEN {<<>>}
    ELSE IF n = 1 THEN KvLines
    ELSE {t \o <<10>> \o l : t \in KvTextsOf(n - 1), l \in KvLines}

KvTexts == UNION {KvTextsOf(n) : n \in 0..MaxLines}

KvInit ==
    /\ pc = "idle"
    /\ today_year = MinCurrentYear
    /\ fn = "" /\ arg = None /\ ret = None /\ reg_bytes = <<>>
    /\ detail = EmptyBag /\ io_dict = EmptyBag
    /\ battery = EmptyBag /\ out = EmptyBag /\ data = EmptyBag
    /\ NoProcess

CallParseIdeviceinfoKv ==
    /\ pc = "idle"
    /\ \E text \in KvTexts :
          /\ arg' = PyStr(text)
          /\ data' = parse_ideviceinfo_kv(text)
    /\ fn' = "parse_ideviceinfo_kv"
    /\ pc' = "returned"
    /\ UNCHANGED <<detail, io_dict, today_year, ret, reg_bytes, battery, out,
                   viewvars, procvars>>

KvNext == CallParseIdeviceinfoKv

SpecKv == KvInit /\ [][KvNext]_vars

----------------------------------------------------------------------------
(* The entry points: main() of batstat.py, of bat.py and of the package *)

\* the command line and the platform of one run
MainEnvs ==
    {[platform |-> p, program |-> "batstat", ios |-> i, no_ios |-> n, ios_udid |-> u] :
        p \in {"Darwin", "Linux"}, i \in BOOLEAN, n \in BOOLEAN,
        u \in {None, PyStr(<<117, 50>>)}}
      \cup {[platform |-> p, program |-> g, ios |-> FALSE, no_ios |-> FALSE, ios_udid |-> None] :
               p \in {"Darwin", "Linux"}, g \in {"bat", "package"}}

MainInit ==
    /\ pc = "main"
    /\ env \in MainEnvs
    /\ detail = EmptyBag /\ io_dict = EmptyBag /\ data = EmptyBag
    /\ today_year = MaxCurrentYear
    /\ fn = "" /\ arg = None /\ ret = None /\ reg_bytes = <<>>
    /\ battery = EmptyBag /\ out = EmptyBag
    /\ pmset_info = EmptyBag /\ sp = None /\ view = EmptyBag
    /\ invoked = <<>> /\ exit_status = None /\ capture = EmptyBag
    /\ devices = <<>> /\ printed = <<>> /\ device = NoDevice

\* sys.exit(code) after printing a message
Exit(code, message) ==
    /\ exit_status' = PyInt(code)
    /\ printed' = Append(printed, [kind |-> message, udid |-> None])
    /\ pc' = "exited"

\* the platform check that opens main() in batstat.py and bat.py
CheckPlatform ==
    /\ pc = "main"
    /\ env.program \in {"batstat", "bat"}
    /\ IF env.platform # "Darwin"
       THEN Exit(1, "macOS only")
       ELSE /\ pc' = IF env.program = "batstat" /\ env.ios THEN "ios_mode" ELSE "pmset"
            /\ UNCHANGED <<exit_status, printed>>
    /\ UNCHANGED <<detail, io_dict, today_year, fn, arg, ret, reg_bytes, battery, out, data,
                   viewvars, env, invoked, capture, devices, device>>

str_pmset_text ==
    str_line1_ac \o <<10>> \o str_battery_id \o str_85pct \o str_status_charging
        \o str_time_present \o <<10>>

MainPmsetOutcomes ==
    {Outcome("not_found", <<>>), Outcome("nonzero", str_pmset_text),
     Outcome("ok", <<>>), Outcome("ok", str_pmset_text)}

\* pmset_info = parse_pmset() in main()
MainParsePmset ==
    /\ pc = "pmset"
    /\ \E o \in MainPmsetOutcomes :
          /\ capture' = o
          /\ pmset_info' = parse_pmset(run_cmd(o))
    /\ invoked' = Append(invoked, "pmset")
    /\ pc' = "pmset_parsed"
    /\ UNCHANGED <<detail, io_dict, today_year, fn, arg, ret, reg_bytes, battery, out, data,
                   sp, view, env, exit_status, devices, printed, device>>

str_sp_json == <<123, 34, 83, 80, 80, 111, 119, 101, 114, 68, 97, 116, 97, 84, 121, 112, 101, 34, 58, 91, 123, 34, 115, 112, 112, 111, 119, 101, 114, 95, 98, 97, 116, 116, 101, 114, 121, 95, 99, 104, 97, 114, 103, 101, 95, 105, 110, 102, 111, 34, 58, 123, 34, 115, 112, 112, 111, 119, 101, 114, 95, 98, 97, 116, 116, 101, 114, 121, 95, 99, 117, 114, 114, 101, 110, 116, 95, 99, 97, 112, 97, 99, 105, 116, 121, 34, 58, 52, 48, 48, 48, 44, 34, 115, 112, 112, 111, 119, 101, 114, 95, 98, 97, 116, 116, 101, 114, 121, 95, 109, 97, 120, 95, 99, 97, 112, 97, 99, 105, 116, 121, 34, 58, 53, 48, 48, 48, 125, 44, 34, 115, 112, 112, 111, 119, 101, 114, 95, 99, 117, 114, 114, 101, 110, 116, 95, 118, 111, 108, 116, 97, 103, 101, 34, 58, 49, 50, 48, 48, 48, 125, 93, 125>>

str_not_json == <<115, 121, 115, 116, 101, 109, 95, 112, 114, 111, 102, 105, 108, 101, 114, 58, 32, 117, 110, 107, 110, 111, 119, 110, 32, 100, 97, 116, 97, 32, 116, 121, 112, 101>>

\* json.loads on the documents of the model; None stands for JSONDecodeError
json_loads(text) ==
    IF text = str_sp_json
    THEN PyDict([SPPowerDataType |-> PyList(<<
             PyDict([sppower_battery_charge_info |->
                        PyDict([sppower_battery_current_capacity |-> PyInt(4000),
                                sppower_battery_max_capacity |-> PyInt(5000)]),
                     sppower_current_voltage |-> PyInt(12000)])>>)])
    ELSE None

SpOutcomes ==
    {Outcome("not_found", <<>>), Outcome("nonzero", str_sp_json), Outcome("ok", <<10>>),
     Outcome("ok", str_not_json), Outcome("ok", str_sp_json \o <<10>>)}

get_sppower_json(outcome) ==
    LET out_text == run_cmd(outcome)
    IN  IF ~Truthy(out_text) THEN None ELSE json_loads(out_text.s)

\* sp = get_sppower_json()
GetSppowerJson ==
    /\ pc = "pmset_parsed"
    /\ \E o \in SpOutcomes :
          /\ capture' = o
          /\ sp' = get_sppower_json(o)
    /\ invoked' = Append(invoked, "system_profiler")
    /\ pc' = "sp_read"
    /\ UNCHANGED <<detail, io_dict, today_year, fn, arg, ret, reg_bytes, battery, out, data,
                   pmset_info, view, env, exit_status, devices, printed, device>>

str_ioreg_text ==
    <<43, 45, 111, 32, 65, 112, 112, 108, 101, 83, 109, 97, 114, 116, 66, 97, 116, 116, 101, 114, 121, 32, 32, 60, 99, 108, 97, 115, 115, 32, 65, 112, 112, 108, 101, 83, 109, 97, 114, 116, 66, 97, 116, 116, 101, 114, 121, 62>>
      \o <<10>> \o <<32, 32, 32, 32, 32, 32, 34, 67, 121, 99, 108, 101, 67, 111, 117, 110, 116, 34, 32, 61, 32, 49, 53, 48>>
      \o <<10>> \o <<32, 32, 32, 32, 32, 32, 34, 68, 101, 115, 105, 103, 110, 67, 97, 112, 97, 99, 105, 116, 121, 34, 32, 61, 32, 53, 48, 48, 48>>

\* the key/value lines of the register dumps of the model
ioreg_flat(text) ==
    IF text = str_ioreg_text
    THEN [CycleCount |-> PyInt(150), DesignCapacity |-> PyInt(5000)]
    ELSE EmptyBag

IoregOutcomes ==
    {Outcome("not_found", <<>>), Outcome("nonzero", str_ioreg_text), Outcome("ok", <<>>),
     Outcome("ok", str_ioreg_text \o <<10>>)}

\* the flat dict of parse_ioreg_battery
parse_ioreg_battery(outcome) ==
    LET out_text == run_cmd(outcome)
    IN  IF ~Truthy(out_text) THEN EmptyBag ELSE ioreg_flat(out_text.s)

\* detail = enrich_with_ioreg(detail), the register dump being captured
EnrichFromCapture ==
    /\ pc = "extracted"
    /\ env.program = "batstat"
    /\ \E o \in IoregOutcomes :
          /\ capture' = o
          /\ io_dict' = parse_ioreg_battery(o)
          /\ detail' \in enrich_with_ioreg(detail, parse_ioreg_battery(o), today_year)
    /\ invoked' = Append(invoked, "ioreg")
    /\ pc' = "enriched"
    /\ UNCHANGED <<today_year, fn, arg, ret, reg_bytes, battery, out, data, viewvars,
                   env, exit_status, devices, printed, device>>

\* bat.py: print_with_rich / print_plain, then main() returns
BatRender ==
    /\ pc = "extracted"
    /\ env.program = "bat"
    /\ view' = [charge |-> rich_percent_cell(Get(pmset_info, "percent")),
                health |-> rich_health_cell(Get(detail, "health"))]
    /\ printed' = Append(printed, [kind |-> "record", udid |-> None])
    /\ exit_status' = PyInt(0)
    /\ pc' = "exited"
    /\ UNCHANGED <<detail, io_dict, today_year, fn, arg, ret, reg_bytes, battery, out, data,
                   pmset_info, sp, env, invoked, capture, devices, device>>

str_one_device == <<117, 49, 10>>

str_two_devices == <<117, 49, 10, 117, 50, 10>>

DeviceListOutcomes ==
    {Outcome("not_found", <<>>), Outcome("nonzero", str_one_device), Outcome("ok", <<10>>),
     Outcome("ok", str_one_device), Outcome("ok", str_two_devices)}

\* the stripped, non-empty lines of `idevice_id -l`
list_ios_devices(outcome) ==
    LET out_text == IF outcome.kind = "not_found" THEN None ELSE run_cmd(outcome)
        stripped(l) == [i \in 1..Len(l) |-> PyStr(Strip(l[i]))]
    IN  IF ~Truthy(out_text) THEN <<>>
        ELSE SelectSeq(stripped(splitlines(out_text.s)), Truthy)

\* a run of ideviceinfo: as Outcome, with stderr
DeviceOutcome(kind, stdout, stderr) == [kind |-> kind, stdout |-> stdout, stderr |-> stderr]

\* (stdout, stderr, returncode) of run_cmd_capture, (None, str(exc), None)
\* when the command cannot be started
run_cmd_capture(outcome) ==
    IF outcome.kind = "oserror"
    THEN [out |-> None, err |-> PyStr(outcome.stderr), code |-> None]
    ELSE [out |-> PyStr(Strip(outcome.stdout)),
          err |-> PyStr(Strip(outcome.stderr)),
          code |-> PyInt(IF outcome.kind = "ok" THEN 0 ELSE 1)]

str_device_text ==
    <<66, 97, 116, 116, 101, 114, 121, 67, 117, 114, 114, 101, 110, 116, 67, 97, 112, 97, 99, 105, 116, 121, 58, 32, 56, 48>>
      \o <<10>> \o <<66, 97, 116, 116, 101, 114, 121, 73, 115, 67, 104, 97, 114, 103, 105, 110, 103, 58, 32, 116, 114, 117, 101>> \o <<10>>

str_no_colon == <<110, 111, 32, 98, 97, 116, 116, 101, 114, 121>>

\* the battery domain of a second device
str_device_text_b ==
    <<66, 97, 116, 116, 101, 114, 121, 67, 117, 114, 114, 101, 110, 116, 67, 97, 112, 97, 99, 105, 116, 121, 58, 32, 53, 53>>
      \o <<10>> \o <<67, 121, 99, 108, 101, 67, 111, 117, 110, 116, 58, 32, 49, 50>> \o <<10>>

str_ideviceinfo_not_found == <<105, 100, 101, 118, 105, 99, 101, 105, 110, 102, 111, 32, 110, 111, 116, 32, 102, 111, 117, 110, 100, 46, 32, 73, 110, 115, 116, 97, 108, 108, 32, 108, 105, 98, 105, 109, 111, 98, 105, 108, 101, 100, 101, 118, 105, 99, 101, 46>>

str_failed_to_run == <<70, 97, 105, 108, 101, 100, 32, 116, 111, 32, 114, 117, 110, 32, 105, 100, 101, 118, 105, 99, 101, 105, 110, 102, 111, 46>>

str_no_battery_data == <<78, 111, 32, 98, 97, 116, 116, 101, 114, 121, 32, 100, 97, 116, 97, 32, 114, 101, 116, 117, 114, 110, 101, 100, 32, 102, 114, 111, 109, 32, 105, 79, 83, 32, 100, 101, 118, 105, 99, 101, 46>>

str_exec_error == <<91, 69, 114, 114, 110, 111, 32, 56, 93, 32, 69, 120, 101, 99, 32, 102, 111, 114, 109, 97, 116, 32, 101, 114, 114, 111, 114>>

str_no_device == <<69, 82, 82, 79, 82, 58, 32, 78, 111, 32, 100, 101, 118, 105, 99, 101, 32, 102, 111, 117, 110, 100, 33>>

DeviceOutcomes ==
    {DeviceOutcome("not_found", <<>>, <<>>),
     DeviceOutcome("oserror", <<>>, str_exec_error),
     DeviceOutcome("nonzero", <<>>, str_no_device),
     DeviceOutcome("nonzero", str_device_text, <<>>),
     DeviceOutcome("ok", <<10>>, <<>>),
     DeviceOutcome("ok", str_no_colon, <<>>),
     DeviceOutcome("ok", str_device_text, <<>>),
     DeviceOutcome("ok", str_device_text_b, <<>>)}

\* (data, raw, err) of get_ios_battery_info
get_ios_battery_info(outcome) ==
    IF outcome.kind = "not_found"
    THEN [data |-> None, raw |-> None, err |-> PyStr(str_ideviceinfo_not_found)]
    ELSE LET r == run_cmd_capture(outcome)
         IN  IF IsNone(r.out)
             THEN [data |-> None, raw |-> None, err |-> PyOr(r.err, PyStr(str_failed_to_run))]
             ELSE IF r.code # PyInt(0) \/ ~Truthy(r.out)
             THEN [data |-> None, raw |-> r.out, err |-> PyOr(r.err, PyStr(str_no_battery_data))]
             ELSE [data |-> named_bag(parse_ideviceinfo_kv(r.out.s)), raw |-> r.out, err |-> None]

\* `if err or data is None`
InfoFailed(info) == Truthy(info.err) \/ info.data = None

\* after the host record: return with --no-ios or without devices, else
\* start the loop over the listed devices
ListIosDevices ==
    /\ pc = "rendered"
    /\ env.program = "batstat"
    /\ IF env.no_ios
       THEN /\ exit_status' = PyInt(0) /\ pc' = "exited"
            /\ UNCHANGED <<capture, invoked, devices>>
       ELSE \E o \in DeviceListOutcomes :
               /\ capture' = o
               /\ invoked' = IF o.kind = "not_found" THEN invoked
                             ELSE Append(invoked, "idevice_id")
               /\ devices' = list_ios_devices(o)
               /\ IF list_ios_devices(o) = <<>>
                  THEN exit_status' = PyInt(0) /\ pc' = "exited"
                  ELSE exit_status' = exit_status /\ pc' = "next_device"
    /\ UNCHANGED <<detail, io_dict, today_year, fn, arg, ret, reg_bytes, battery, out, data,
                   viewvars, env, printed, device>>

\* one turn of `for udid in devices`: capture the device, warn and go on
\* when that fails; main() returns after the last device
NextDevice ==
    /\ pc = "next_device"
    /\ IF devices = <<>>
       THEN /\ exit_status' = PyInt(0) /\ pc' = "exited"
            /\ UNCHANGED <<capture, invoked, devices, printed, device, data>>
       ELSE \E o \in DeviceOutcomes :
               LET info == get_ios_battery_info(o)
               IN  /\ capture' = o
                   /\ invoked' = IF o.kind = "not_found" THEN invoked
                                 ELSE Append(invoked, "ideviceinfo")
                   /\ data' = info.data
                   /\ device' = [udid |-> Head(devices), name |-> None]
                   /\ exit_status' = exit_status
                   /\ IF InfoFailed(info)
                      THEN /\ printed' = Append(printed,
                                              [kind |-> "warning", udid |-> Head(devices)])
                           /\ devices' = Tail(devices)
                           /\ pc' = "next_device"
                      ELSE /\ UNCHANGED <<printed, devices>>
                           /\ pc' = "ios_info"
    /\ UNCHANGED <<detail, io_dict, today_year, fn, arg, ret, reg_bytes, battery, out,
                   viewvars, env>>

\* --ios: list the devices, pick the one to read, capture it
IosMode ==
    /\ pc = "ios_mode"
    /\ \E l \in DeviceListOutcomes :
          LET listed == list_ios_devices(l)
              udid == IF IsNone(env.ios_udid) /\ Len(listed) = 1 THEN listed[1]
                      ELSE env.ios_udid
              listing == IF l.kind = "not_found" THEN invoked ELSE Append(invoked, "idevice_id")
          IN  IF IsNone(env.ios_udid) /\ Len(listed) > 1
              THEN /\ Exit(2, "multiple devices")
                   /\ capture' = l
                   /\ invoked' = listing
                   /\ devices' = listed
                   /\ UNCHANGED <<data, device>>
              ELSE \E o \in DeviceOutcomes :
                      LET info == get_ios_battery_info(o)
                      IN  /\ capture' = o
                          /\ invoked' = IF o.kind = "not_found" THEN listing
                                        ELSE Append(listing, "ideviceinfo")
                          /\ devices' = listed
                          /\ data' = info.data
                          /\ device' = [udid |-> udid, name |-> None]
                          /\ IF InfoFailed(info)
                             THEN Exit(1, "unable to read device")
                             ELSE /\ pc' = "ios_info"
                                  /\ UNCHANGED <<exit_status, printed>>
    /\ UNCHANGED <<detail, io_dict, today_year, fn, arg, ret, reg_bytes, battery, out,
                   viewvars, env>>

str_iPhone == <<105, 80, 104, 111, 110, 101>>

str_name_line == <<68, 101, 118, 105, 99, 101, 78, 97, 109, 101, 58, 32, 105, 80, 97, 100>>

DeviceNameOutcomes ==
    {Outcome("not_found", <<>>), Outcome("nonzero", <<>>), Outcome("ok", str_iPhone \o <<10>>),
     Outcome("ok", str_name_line \o <<10>>)}

\* the device name: the text after the first colon if there is one
get_ios_device_name(outcome) ==
    LET out_text == IF outcome.kind = "not_found" THEN None ELSE run_cmd(outcome)
    IN  IF ~Truthy(out_text) THEN None
        ELSE IF 58 \in {out_text.s[i] : i \in 1..Len(out_text.s)}
        THEN LET value == Strip(SubSeq(out_text.s, Find(out_text.s, 1, {58}) + 1,
                                       Len(out_text.s)))
             IN  IF Len(value) > 0 THEN PyStr(value) ELSE None
        ELSE PyStr(Strip(out_text.s))

\* device_name = get_ios_device_name(udid)
GetIosDeviceName ==
    /\ pc = "ios_info"
    /\ \E o \in DeviceNameOutcomes :
          /\ capture' = o
          /\ invoked' = IF o.kind = "not_found" THEN invoked
                        ELSE Append(invoked, "ideviceinfo -k DeviceName")
          /\ device' = [device EXCEPT !.name = get_ios_device_name(o)]
    /\ pc' = "ios_captured"
    /\ UNCHANGED <<detail, io_dict, today_year, fn, arg, ret, reg_bytes, battery, out, data,
                   viewvars, env, exit_status, devices, printed>>

\* after a device record: the next device of the loop, or return under --ios
AfterIosRender ==
    /\ pc = "ios_rendered"
    /\ IF env.ios
       THEN exit_status' = PyInt(0) /\ pc' = "exited" /\ devices' = devices
       ELSE exit_status' = exit_status /\ pc' = "next_device" /\ devices' = Tail(devices)
    /\ UNCHANGED <<detail, io_dict, today_year, fn, arg, ret, reg_bytes, battery, out, data,
                   viewvars, env, invoked, capture, printed, device>>

str_pkg_ioreg ==
    <<34, 77, 97, 120, 67, 97, 112, 97, 99, 105, 116, 121, 34, 32, 61, 32, 49, 48>>
      \o <<10>> \o <<34, 67, 117, 114, 114, 101, 110, 116, 67, 97, 112, 97, 99, 105, 116, 121, 34, 32, 61, 32, 55>>
      \o <<10>> \o <<34, 73, 115, 67, 104, 97, 114, 103, 105, 110, 103, 34, 32, 61, 32, 89, 101, 115>> \o <<10>>

\* what the patterns of _parse_ioreg capture from the dumps of the model
BatteryData(text) ==
    LET nothing == [k \in {"current_capacity", "max_capacity", "design_capacity",
                           "cycle_count", "temperature", "is_charging",
                           "external_connected", "fully_charged"} |-> None]
    IN  IF text = str_pkg_ioreg
        THEN [current_capacity |-> PyStr(<<55>>), max_capacity |-> PyStr(<<49, 48>>),
              is_charging |-> PyStr(str_Yes)] @@ nothing
        ELSE nothing

PkgIoregOutcomes ==
    {Outcome("not_found", <<>>), Outcome("nonzero", str_pkg_ioreg), Outcome("ok", <<>>),
     Outcome("ok", str_pkg_ioreg)}

\* the package: main() goes straight to display_battery_status, which reads
\* the register dump, exits with status 1 without it, and then reads the
\* charger information
PackageGetBatteryData ==
    /\ pc = "main"
    /\ env.program = "package"
    /\ \E o \in PkgIoregOutcomes :
          /\ capture' = o
          /\ IF o.kind \in {"not_found", "nonzero"}
             THEN /\ Exit(1, "unable to read battery information")
                  /\ invoked' = Append(invoked, "ioreg")
                  /\ battery' = battery
             ELSE /\ battery' = BatteryData(o.stdout)
                  /\ invoked' = invoked \o <<"ioreg", "system_profiler">>
                  /\ pc' = "pkg_captured"
                  /\ UNCHANGED <<exit_status, printed>>
    /\ UNCHANGED <<detail, io_dict, today_year, fn, arg, ret, reg_bytes, out, data,
                   viewvars, env, devices, device>>

\* display_battery_status returns and main() ends
PackageReturn ==
    /\ pc \in {"pkg_displayed", "pkg_rendered"}
    /\ env.program = "package"
    /\ exit_status' = PyInt(0)
    /\ pc' = "exited"
    /\ UNCHANGED <<detail, io_dict, today_year, fn, arg, ret, reg_bytes, battery, out, data,
                   viewvars, env, invoked, capture, devices, printed, device>>

MainNext ==
    \/ CheckPlatform
    \/ MainParsePmset
    \/ GetSppowerJson
    \/ ExtractBatteryAndCharger
    \/ EnrichFromCapture
    \/ BatRender
    \/ RenderOutput
    \/ ListIosDevices
    \/ NextDevice
    \/ IosMode
    \/ GetIosDeviceName
    \/ BuildIosViews
    \/ AfterIosRender
    \/ PackageGetBatteryData
    \/ DisplayBatteryStatus
    \/ DisplayBatteryStatusVerbose
    \/ PackageReturn

SpecMain == MainInit /\ [][MainNext]_vars

----------------------------------------------------------------------------
(* enrich_with_ioreg statement by statement *)

\* the records the pass starts from: no structured report, or a report
\* without battery or charger entries
PassDetails == {EmptyBag, EmptyDetail}

PassInit ==
    /\ pc = "pass_start"
    /\ detail \in PassDetails
    /\ io_dict = EmptyBag
    /\ today_year = MaxCurrentYear
    /\ fn = "" /\ arg = None /\ ret = None /\ reg_bytes = <<>>
    /\ battery = EmptyBag /\ out = EmptyBag /\ data = EmptyBag
    /\ NoProcess

\* io_dict, raw = parse_ioreg_battery(); an empty bag returns at once
PassParseIoreg ==
    /\ pc = "pass_start"
    /\ io_dict' \in IoDicts
    /\ pc' = IF io_dict' = EmptyBag THEN "pass_done" ELSE "merging"
    /\ UNCHANGED <<detail, today_year, fn, arg, ret, reg_bytes, battery, out, data,
                   viewvars, procvars>>

\* the set_if_absent calls from design_capacity to charger_connected
PassMergeFields ==
    /\ pc = "merging"
    /\ detail' = MergeCapacities(detail, io_dict)
    /\ pc' = "watts"
    /\ UNCHANGED <<io_dict, today_year, fn, arg, ret, reg_bytes, battery, out, data,
                   viewvars, procvars>>

PassChargingWatts ==
    /\ pc = "watts"
    /\ \E w \in WattsValues(detail, io_dict) :
          detail' = set_if_absent(detail, "charging_watts", w)
    /\ pc' = "temperature"
    /\ UNCHANGED <<io_dict, today_year, fn, arg, ret, reg_bytes, battery, out, data,
                   viewvars, procvars>>

PassTemperature ==
    /\ pc = "temperature"
    /\ \E t \in TempValues(io_dict) :
          detail' = set_if_absent(detail, "temperature_c", t)
    /\ pc' = "charger_watts"
    /\ UNCHANGED <<io_dict, today_year, fn, arg, ret, reg_bytes, battery, out, data,
                   viewvars, procvars>>

\* set_if_absent("charger_watts", to_int(io_dict.get("AdapterWatts")))
PassChargerWatts ==
    /\ pc = "charger_watts"
    /\ detail' = set_if_absent(detail, "charger_watts", to_int(Get(io_dict, "AdapterWatts")))
    /\ pc' = "health"
    /\ UNCHANGED <<io_dict, today_year, fn, arg, ret, reg_bytes, battery, out, data,
                   viewvars, procvars>>

PassHealthPct ==
    /\ pc = "health"
    /\ \E h \in HealthValues(io_dict) :
          detail' = set_if_absent(detail, "health_pct", h)
    /\ pc' = "manufacture"
    /\ UNCHANGED <<io_dict, today_year, fn, arg, ret, reg_bytes, battery, out, data,
                   viewvars, procvars>>

PassManufactureDate ==
    /\ pc = "manufacture"
    /\ detail' = set_if_absent(detail, "manufacture_date", ManufDate(io_dict, today_year))
    /\ pc' = "pass_done"
    /\ UNCHANGED <<io_dict, today_year, fn, arg, ret, reg_bytes, battery, out, data,
                   viewvars, procvars>>

PassNext ==
    \/ PassParseIoreg
    \/ PassMergeFields
    \/ PassChargingWatts
    \/ PassTemperature
    \/ PassChargerWatts
    \/ PassHealthPct
    \/ PassManufactureDate

SpecPass == PassInit /\ [][PassNext]_vars

----------------------------------------------------------------------------
(* All entry points side by side *)

Init == FnInit \/ HostInit \/ IosInit \/ PkgInit

Next == FnNext \/ HostNext \/ IosNext \/ PkgNext

Spec == Init /\ [][Next]_vars

----------------------------------------------------------------------------
(* Reconciliation *)

\* the value the register adapter supplies for a canonical field
RegisterValue(io, f) ==
    CASE f = "design_capacity"     -> io_design(io)
      [] f = "max_capacity"        -> io_max_cap(io)
      [] f = "current_capacity"    -> io_cur_cap(io)
      [] f = "cycle_count"         -> io_cycles(io)
      [] f = "voltage_mV"          -> io_voltage(io)
      [] f = "amperage_mA"         -> io_amperage(io)
      [] f = "charger_is_charging" -> Get(io, "IsCharging")
      [] f = "charger_connected"   -> Get(io, "ExternalConnected")
      [] f = "charger_watts"       -> to_int(Get(io, "AdapterWatts"))
      [] OTHER                     -> None

\* C1: fill-if-absent -- a field the structured report supplied keeps its
\* value when the register adapter supplies a value for the same field.
ClaimFillIfAbsent ==
    [][(pc = "extracted" /\ pc' = "enriched") =>
         \A f \in DetailFields :
            (~IsNone(Get(detail, f)) /\ ~IsNone(RegisterValue(io_dict', f)))
               => Get(detail', f) = Get(detail, f)]_vars

\* the flag reads as true in the program's own rendering of flags
DenotesTrue(v) == boolish_to_str(v) = str_Yes

\* C2: a live charging wattage is in the record only if the amperage is
\* strictly positive and the charging flag or the external-power flag denotes
\* true; when present it is round(voltage * amperage / 1_000_000, 1).
ClaimWattsOnlyWhenCharging ==
    (pc = "enriched" /\ ~IsNone(Get(detail, "charging_watts"))) =>
        /\ ~IsNone(Get(detail, "amperage_mA"))
        /\ Positive(Get(detail, "amperage_mA"))
        /\ \/ DenotesTrue(Get(detail, "charger_is_charging"))
           \/ DenotesTrue(Get(detail, "charger_connected"))
        /\ ~IsNone(Get(detail, "voltage_mV"))
        /\ LET p == Get(detail, "voltage_mV").n * Get(detail, "amperage_mA").n
               w == Get(detail, "charging_watts").n
           IN  2 * (10 * p - 1000000 * w) <= 1000000
                 /\ 2 * (1000000 * w - 10 * p) <= 1000000

----------------------------------------------------------------------------
(* Signed-amperage correction *)

\* 2^63 <= v < 2^64
InUpperHalf(v) == v.t = "int" /\ ((v.k = 1 /\ v.n >= 0) \/ (v.k = 2 /\ v.n < 0))

\* v < 2^63
BelowTwo63(v) == v.t = "int" /\ (v.k <= 0 \/ (v.k = 1 /\ v.n < 0))

\* -2^63 <= v < 2^63
InSignedRange(v) ==
    v.t = "int" /\ ((v.k = -1 /\ v.n >= 0) \/ v.k = 0 \/ (v.k = 1 /\ v.n < 0))

\* int() raises TypeError or ValueError
NotCoercible(v) ==
    \/ v.t = "none"
    \/ v.t = "str" /\ LET b == Strip(v.s)
                          d == IF Len(b) > 0 /\ b[1] \in {43, 45} THEN Tail(b) ELSE b
                      IN  Len(d) = 0 \/ ~AllDigits(d)

\* C3: to_int_signed_64 maps v in [2^63, 2^64) to v - 2^64, leaves v < 2^63
\* unchanged, yields absent for a value int() rejects, and so maps every
\* input in [0, 2^64) into [-2^63, 2^63).
ThmSignedCorrection ==
    fn = "to_int_signed_64" =>
        /\ InUpperHalf(arg) => ret = PyBig(arg.k - 2, arg.n)
        /\ BelowTwo63(arg) => ret = arg
        /\ NotCoercible(arg) => ret = None
        /\ (InUpperHalf(arg) \/ (BelowTwo63(arg) /\ ~(arg.k < 0 \/ (arg.k = 0 /\ arg.n < 0))))
              => InSignedRange(ret)

\* the raw value 2^63 has been corrected to -2^63
WitSignedCorrection ==
    fn = "to_int_signed_64" /\ arg = PyBig(1, 0) /\ ret = PyBig(-1, 0)

----------------------------------------------------------------------------
(* Manufacture date *)

IsoOf(cand) == PyStr(isoformat(CandYear(cand), CandMonth(cand), CandDay(cand)))

\* C4: for a register holding exactly six ASCII digits the decoded date is
\* that of the string as written when it is a valid date with
\* 2000 <= year <= current year, else that of the reversed string when that
\* one is; "210315" and "513012" both give 2021-03-15.
ThmDateFirstCandidate ==
    (fn = "_decode_manufacture_date" /\ Len(reg_bytes) = 6 /\ AllDigits(reg_bytes)) =>
        /\ CandAccepted(reg_bytes, today_year) => ret = IsoOf(reg_bytes)
        /\ (~CandAccepted(reg_bytes, today_year)
              /\ CandAccepted(Reverse(reg_bytes), today_year))
             => ret = IsoOf(Reverse(reg_bytes))
        /\ reg_bytes \in {str_210315, str_513012} => ret = PyStr(str_2021_03_15)

\* the reversed packing has been decoded through the reversed candidate
WitDateFirstCandidate ==
    fn = "_decode_manufacture_date" /\ reg_bytes = str_513012
        /\ ret = PyStr(str_2021_03_15)

\* the bytes of the register behind a printed literal, <<>> when the scalar is
\* not a non-negative integer
LiteralBytes(raw) == IF DateInt(raw) = <<>> THEN <<>> ELSE to_bytes(DateInt(raw))

\* no date can be read from raw: not an integer, a byte outside 48..57, not
\* six characters, or no candidate that is a valid date in [2000, today]
Undecodable(raw, today) ==
    \/ LiteralBytes(raw) = <<>>
    \/ ~AllDigits(LiteralBytes(raw))
    \/ Len(LiteralBytes(raw)) # 6
    \/ /\ ~CandAccepted(LiteralBytes(raw), today)
       /\ ~CandAccepted(Reverse(LiteralBytes(raw)), today)

\* C5: an undecodable manufacture date yields absent, and the register
\* adapter then leaves the record's manufacture_date unset.
ThmUndecodableDate ==
    /\ (fn = "_decode_manufacture_date" /\ Undecodable(arg, today_year)) => ret = None
    /\ (pc = "enriched" /\ Undecodable(Get(io_dict, "ManufactureDateRaw"), today_year))
          => IsNone(Get(detail, "manufacture_date"))

\* a register of five digits went through the register adapter and left the
\* field unset
WitUndecodableDate ==
    /\ pc = "enriched"
    /\ Get(io_dict, "ManufactureDateRaw") = PyStr(PackedLiteral(<<50, 49, 48, 51, 49>>))
    /\ IsNone(Get(detail, "manufacture_date"))


----------------------------------------------------------------------------
(* Percentages *)

Abs(x) == IF x < 0 THEN 0 - x ELSE x

\* tenths is a nearest tenth of  100 * a / b  (b > 0)
NearestPct(tenths, a, b) == 2 * Abs(tenths * b - 1000 * a) <= b

\* the integer a capture holds
CaptureValue(v) == DecimalValue(v.s)

\* C6: for integers current and max with max > 0 the charge percentage is
\* round(current / max * 100, 1).
ThmChargePercentage ==
    (pc = "pkg_displayed" /\ ~IsNone(battery.current_capacity)
        /\ ~IsNone(battery.max_capacity) /\ CaptureValue(battery.max_capacity) > 0) =>
        /\ out.percentage.t = "float"
        /\ NearestPct(out.percentage.n, CaptureValue(battery.current_capacity),
                      CaptureValue(battery.max_capacity))

\* 2 of 3 has been reported as 66.7
WitChargePercentage ==
    /\ pc = "pkg_displayed"
    /\ battery.current_capacity = PyStr(<<50>>)
    /\ battery.max_capacity = PyStr(<<51>>)
    /\ out.percentage = PyFloat(667)

\* C7: with max capacity 0 or absent the calculator reports no numeric charge
\* percentage.
ClaimNoPercentageWithoutMax ==
    (pc = "pkg_displayed"
        /\ (IsNone(battery.max_capacity) \/ CaptureValue(battery.max_capacity) = 0))
      => IsNone(out.percentage)

\* the record holds integers max >= 0 and design > 0
HasHealthInputs(d) ==
    LET mx == Get(d, "max_capacity")
        ds == Get(d, "design_capacity")
    IN  mx.t = "int" /\ ds.t = "int" /\ mx.k = 0 /\ ds.k = 0 /\ mx.n >= 0 /\ ds.n > 0

\* C8: whenever integers max >= 0 and design > 0 are present in the record the
\* health percentage is present and is round(max / design * 100, 1), in the
\* register-adapter path, the external-device path and the package.
ClaimHealthPercentage ==
    /\ (pc \in {"enriched", "ios_built"} /\ HasHealthInputs(detail)) =>
          /\ Get(detail, "health_pct").t = "float"
          /\ NearestPct(Get(detail, "health_pct").n, Get(detail, "max_capacity").n,
                        Get(detail, "design_capacity").n)
    /\ (pc = "pkg_displayed" /\ ~IsNone(battery.max_capacity)
          /\ ~IsNone(battery.design_capacity)
          /\ CaptureValue(battery.design_capacity) > 0) =>
          /\ out.health.t = "float"
          /\ NearestPct(out.health.n, CaptureValue(battery.max_capacity),
                        CaptureValue(battery.design_capacity))

\* C9: with design capacity 0 or absent no health percentage (no 0.0
\* placeholder either) is put in the record or the output.
ClaimNoHealthWithoutDesign ==
    /\ (pc \in {"enriched", "ios_built"}
          /\ (IsNone(Get(detail, "design_capacity"))
                \/ Get(detail, "design_capacity") = PyInt(0)))
         => IsNone(Get(detail, "health_pct"))
    /\ (pc = "pkg_displayed"
          /\ (IsNone(battery.design_capacity) \/ CaptureValue(battery.design_capacity) = 0))
         => IsNone(out.health)

----------------------------------------------------------------------------
(* Temperature *)

\* C10: a Celsius temperature produced from the raw thermal register value
\* is round(raw / 10 - 273.15, 1), raw being tenths of a Kelvin, and is
\* produced only for a numeric raw value.
ClaimTemperature ==
    /\ (pc = "enriched" /\ ~IsNone(Get(detail, "temperature_c"))) =>
          /\ io_temp_raw(io_dict).t = "int"
          /\ Abs(2 * Get(detail, "temperature_c").n - 2 * io_temp_raw(io_dict).n + 5463) <= 1
    /\ pc = "pkg_displayed" =>
          IF IsNone(battery.temperature) THEN IsNone(out.temperature_celsius)
          ELSE Abs(out.temperature_celsius.n - 10 * CaptureValue(battery.temperature) + 27315) <= 5

----------------------------------------------------------------------------
(* Classifiers *)

\* a capture of the package as a tri-state flag
FlagOf(v) == IF IsNone(v) THEN None ELSE PyBool(v.s = str_Yes)

\* the status the rule chain gives three tri-state flags, in lower case
ExpectedStatus(fully, charging, external) ==
    IF fully = True THEN str_fully_charged
    ELSE IF charging = True THEN str_charging
    ELSE IF charging = False THEN str_discharging
    ELSE IF external = True THEN str_connected
    ELSE Lower(str_Unknown)

\* C11: for every combination of the three tri-state flags the status is
\* 'fully charged' if fully-charged is true, else 'charging' if is-charging
\* is true, else 'discharging' if is-charging is false, else 'connected' if
\* external-connected is true, else unknown -- on the device path and in the
\* package alike.
ClaimChargingDirection ==
    /\ pc = "ios_built" =>
          Lower(pmset_info.status.s) =
             ExpectedStatus(detail.fully_charged, detail.is_charging, detail.charger_connected)
    /\ (pc = "pkg_displayed" /\ "fully_charged" \in DOMAIN battery) =>
          Lower(out.status.s) =
             ExpectedStatus(FlagOf(battery.fully_charged), FlagOf(battery.is_charging),
                            FlagOf(battery.external_connected))

\* the colour of the band of an integer percentage
ExpectedBand(p) == IF p >= 80 THEN "green" ELSE IF p >= 40 THEN "yellow" ELSE "red"

\* C12: an integer charge percentage p is coloured good (green) when
\* p >= 80, warning (yellow) when 40 <= p < 80 and critical (red) when
\* p < 40, an absent percentage is left unclassified, and the package
\* colours the charge level by the same thresholds as the script.
ClaimChargeBand ==
    /\ (pc = "rendered" /\ IsNone(pmset_info.percent)) => view.charge.style = ""
    /\ (pc = "rendered" /\ ~IsNone(pmset_info.percent)) =>
          view.charge.style = ExpectedBand(IntOfStr(pmset_info.percent.s).n)
    /\ (pc = "pkg_rendered" /\ view.percentage.n % 10 = 0) =>
          view.battery_color = ExpectedBand(view.percentage.n \div 10)

\* the band of a health label: none for an absent or empty label
ExpectedHealthBand(health) ==
    IF IsNone(health) \/ health.s = <<>> THEN ""
    ELSE IF \E w \in {str_normal, str_good} : Contains(Lower(health.s), w) THEN "green"
    ELSE IF \E w \in {str_soon, str_service, str_replace} : Contains(Lower(health.s), w)
    THEN "red"
    ELSE "yellow"

\* C13: the health band follows the record's health label -- good when it
\* contains 'normal' or 'good' in any case, else critical when it contains
\* 'soon', 'service' or 'replace', else warning for any other non-empty
\* label -- and a record without a label is left unclassified whether or not
\* it has a health percentage.
ClaimHealthBand ==
    pc = "rendered" => view.health.style = ExpectedHealthBand(Get(detail, "health"))

----------------------------------------------------------------------------
(* Structured-report extraction *)

\* the entry list of the report held in sp, a single object counting as a
\* list of one
ReportEntries ==
    LET entries == sp.d.SPPowerDataType
    IN  IF entries.t = "dict" THEN <<entries>> ELSE entries.s

\* the positions of the object entries that carry one of the marker keys
MarkedAt(markers) ==
    {i \in 1..Len(ReportEntries) :
        /\ ReportEntries[i].t = "dict"
        /\ DOMAIN ReportEntries[i].d \cap markers # {}}

Max(S) == CHOOSE x \in S : \A y \in S : y <= x

BatteryMarkers == {"sppower_battery_charge_info"}

ChargerMarkers == {"sppower_battery_charger_connected", "sppower_ac_charger_watts"}

\* C14: the battery fields of the extracted record are those of the last
\* object entry that has the charge-info key and the charger fields those of
\* the last object entry that has the charger-connected or charger-watts key;
\* entries that are not objects are skipped, a single object in place of the
\* list counts as a list of one, and without a marked entry the
\* corresponding fields are all absent.
ThmLastEntryRetained ==
    (pc = "extracted" /\ IsDict(sp) /\ "SPPowerDataType" \in DOMAIN sp.d) =>
        /\ IF MarkedAt(BatteryMarkers) = {}
           THEN \A f \in DOMAIN battery_fields(PyDict(EmptyBag)) : IsNone(detail[f])
           ELSE LET e == ReportEntries[Max(MarkedAt(BatteryMarkers))]
                IN  \A f \in DOMAIN battery_fields(e) : detail[f] = battery_fields(e)[f]
        /\ IF MarkedAt(ChargerMarkers) = {}
           THEN \A f \in DOMAIN charger_fields(PyDict(EmptyBag)) : IsNone(detail[f])
           ELSE LET e == ReportEntries[Max(MarkedAt(ChargerMarkers))]
                IN  \A f \in DOMAIN charger_fields(e) : detail[f] = charger_fields(e)[f]

\* a first entry with both markers, then a later charger entry and a later
\* battery entry with other values: the record holds the later values
WitLastEntryRetained ==
    /\ pc = "extracted" /\ IsDict(sp) /\ "SPPowerDataType" \in DOMAIN sp.d
    /\ sp.d.SPPowerDataType.t = "list"
    /\ Len(ReportEntries) = 3
    /\ MarkedAt(BatteryMarkers) = {1, 3}
    /\ MarkedAt(ChargerMarkers) = {1, 2}
    /\ battery_fields(ReportEntries[1]).current_capacity = PyInt(1000)
    /\ detail.current_capacity = PyInt(4000)
    /\ IsNone(charger_fields(ReportEntries[1]).charger_watts)
    /\ detail.charger_watts = PyInt(96)

----------------------------------------------------------------------------
(* Power-summary adapter *)

str_scenario_line == <<45, 73, 110, 116, 101, 114, 110, 97, 108, 66, 97, 116, 116, 101, 114, 121, 45, 48, 32, 40, 105, 100, 61, 49, 50, 51, 41, 32, 56, 53, 37, 59, 32, 99, 104, 97, 114, 103, 105, 110, 103, 59, 32, 49, 58, 48, 52, 32, 114, 101, 109, 97, 105, 110, 105, 110, 103, 32, 112, 114, 101, 115, 101, 110, 116, 58, 32, 116, 114, 117, 101>>

str_1_04_remaining == <<49, 58, 48, 52, 32, 114, 101, 109, 97, 105, 110, 105, 110, 103>>

\* the capture ends in the line of the scenario
ScenarioCaptured ==
    /\ capture.kind = "ok"
    /\ Len(splitlines(Strip(capture.stdout))) = 2
    /\ Strip(splitlines(Strip(capture.stdout))[2]) = str_scenario_line

\* C15: when line 2 of the power summary is
\* "-InternalBattery-0 (id=123) 85%; charging; 1:04 remaining present: true"
\* the status is "charging", the percentage "85" and the time remaining
\* "1:04 remaining".
ClaimPmsetScenario ==
    (pc = "pmset_parsed" /\ ScenarioCaptured) =>
        /\ pmset_info.status = PyStr(str_charging)
        /\ pmset_info.percent = PyStr(str_85)
        /\ pmset_info.time_remaining = PyStr(str_1_04_remaining)

\* the lines of the captured summary, none when the capture failed
CapturedLines ==
    IF capture.kind = "ok" THEN splitlines(Strip(capture.stdout)) ELSE <<>>

\* line 1 has the quoted, non-empty name of the power source
HasSource(line) ==
    \E i \in 1..(Len(line) - Len(str_Now_drawing_from)) :
        /\ SubSeq(line, i, i + Len(str_Now_drawing_from) - 1) = str_Now_drawing_from
        /\ \E j \in (i + Len(str_Now_drawing_from) + 1)..Len(line) :
              /\ line[j] = 39
              /\ \A x \in (i + Len(str_Now_drawing_from))..(j - 1) : line[x] # 39

\* a digit directly before a percent sign
HasPercent(line) == \E i \in 1..(Len(line) - 1) : IsDigit(line[i]) /\ line[i + 1] = 37

\* a percentage token, a semicolon after at most blanks, and a non-empty
\* phrase up to the next semicolon
HasStatus(line) ==
    \E p \in 1..(Len(line) - 1) :
        /\ IsDigit(line[p]) /\ line[p + 1] = 37
        /\ \E q \in (p + 2)..Len(line) :
              /\ line[q] = 59
              /\ \A x \in (p + 2)..(q - 1) : IsSpace(line[x])
              /\ \E r \in (q + 2)..Len(line) :
                    /\ line[r] = 59
                    /\ \A x \in (q + 1)..(r - 1) : line[x] # 59

\* the word "remaining" after a semicolon, with no semicolon in between
HasTimeRemaining(line) ==
    \E q \in 1..Len(line) :
        /\ line[q] = 59
        /\ \E w \in (q + 1)..(Len(line) - Len(str_remaining_word) + 1) :
              /\ SubSeq(line, w, w + Len(str_remaining_word) - 1) = str_remaining_word
              /\ \A x \in (q + 1)..(w - 1) : line[x] # 59

\* C16: each field of the power summary is found by its own search -- it is
\* present exactly when its own pattern occurs in its line, with the value
\* that search alone gives, whatever the other searches find -- and a capture
\* of fewer than two lines leaves percent, status and time_remaining absent.
ThmIndependentSearches ==
    pc = "pmset_parsed" =>
        /\ Len(CapturedLines) < 2 =>
              /\ IsNone(pmset_info.percent)
              /\ IsNone(pmset_info.status)
              /\ IsNone(pmset_info.time_remaining)
        /\ Len(CapturedLines) = 0 => IsNone(pmset_info.source)
        /\ Len(CapturedLines) >= 1 =>
              /\ ~IsNone(pmset_info.source) <=> HasSource(CapturedLines[1])
              /\ pmset_info.source = search_source(CapturedLines[1])
        /\ Len(CapturedLines) >= 2 =>
              /\ ~IsNone(pmset_info.percent) <=> HasPercent(CapturedLines[2])
              /\ ~IsNone(pmset_info.status) <=> HasStatus(CapturedLines[2])
              /\ ~IsNone(pmset_info.time_remaining) <=> HasTimeRemaining(CapturedLines[2])
              /\ pmset_info.percent = search_percent(CapturedLines[2])
              /\ pmset_info.status = search_status(CapturedLines[2])
              /\ pmset_info.time_remaining = search_time_remaining(CapturedLines[2])

\* a summary whose source and status searches find nothing while the
\* percentage and the time estimate are found
WitIndependentSearches ==
    /\ pc = "pmset_parsed"
    /\ Len(CapturedLines) = 2
    /\ ~HasSource(CapturedLines[1]) /\ IsNone(pmset_info.source)
    /\ ~HasStatus(CapturedLines[2]) /\ IsNone(pmset_info.status)
    /\ pmset_info.percent = PyStr(str_85)
    /\ ~IsNone(pmset_info.time_remaining)

----------------------------------------------------------------------------
(* Unavailable sources and the platform check *)

\* the command found no tool, exited non-zero, or printed nothing
AbsentCapture ==
    /\ capture # EmptyBag
    /\ \/ capture.kind \in {"not_found", "oserror", "nonzero"}
       \/ capture.kind = "ok" /\ Strip(capture.stdout) = <<>>

\* C17: for each of the four capture sources, a missing tool, a non-zero
\* exit and an empty output all leave the adapter with the same result: no
\* field of the power summary, no structured report, an empty register bag,
\* no device bag.
ThmAbsenceEquivalence ==
    AbsentCapture =>
        /\ pc = "pmset_parsed" =>
              \A f \in {"source", "percent", "status", "time_remaining"} :
                  IsNone(pmset_info[f])
        /\ pc = "sp_read" => sp = None
        /\ pc = "enriched" => io_dict = EmptyBag
        /\ (pc \in {"next_device", "exited"} /\ "stderr" \in DOMAIN capture) => data = None

\* a command that printed a full document but exited non-zero, for each of
\* the sources in turn; here: the device tool, whose bag stays absent
WitAbsenceEquivalence ==
    /\ pc = "next_device"
    /\ "stderr" \in DOMAIN capture
    /\ capture.kind = "nonzero"
    /\ capture.stdout = str_device_text
    /\ data = None

\* C18: on the supported platform the run ends with exit status 0 whatever
\* sources are unavailable.
ClaimOnlyPlatformFatal ==
    (pc = "exited" /\ env # EmptyBag /\ env.platform = "Darwin") => exit_status = PyInt(0)

\* C19: on any other platform no capture command is ever invoked, and the
\* run ends with a non-zero exit status.
ClaimPlatformCheckFirst ==
    (env # EmptyBag /\ env.platform # "Darwin") =>
        /\ invoked = <<>>
        /\ pc = "exited" => (exit_status # None /\ exit_status # PyInt(0))

----------------------------------------------------------------------------
(* Alias lists of the external-device fields *)

\* the alias list and the bag of the call that returned
CalledWith(name) == pc = "returned" /\ fn = name

AliasHolds(i) ==
    /\ arg.s[i] \in DOMAIN data
    /\ data[arg.s[i]] # None

FirstHolding == {i \in 1..Len(arg.s) : AliasHolds(i) /\ \A j \in 1..(i - 1) : ~AliasHolds(j)}

Selected == IF FirstHolding = {} THEN None ELSE data[arg.s[CHOOSE i \in FirstHolding : TRUE]]

\* Python's ==  between the values of the bags: True == 1 and False == 0
SameValue(a, b) ==
    \/ a = b
    \/ a.t \in {"bool", "int"} /\ b.t \in {"bool", "int"} /\ a.k = b.k /\ a.n = b.n

\* C20 as stated: both helpers return the value of the first alias that is
\* present with a non-null value, and return nothing exactly when no alias is.
ClaimFirstAlias ==
    (CalledWith("_first_present") \/ CalledWith("_first_int")) =>
        IF FirstHolding = {} THEN IsNone(ret)
        ELSE ~IsNone(ret) /\ SameValue(ret, Selected)

\* C20: _first_present returns the value of the first alias in list order
\* that is present with a non-null value, falsy values included, whatever
\* later aliases hold, and nothing exactly when no alias is; _first_int
\* returns the integer coercion of that same value, so it returns nothing
\* also when the selected value is not an integer literal.
ThmFirstAlias ==
    /\ CalledWith("_first_present") => ret = Selected
    /\ CalledWith("_first_present") => (IsNone(ret) <=> FirstHolding = {})
    /\ CalledWith("_first_int") => ret = to_int(Selected)
    /\ CalledWith("_first_int") =>
          (IsNone(ret) <=> (FirstHolding = {} \/ Selected = PyStr(str_hot)))

\* the first alias holds 0 and a later alias holds 80: the 0 is returned
WitFirstAlias ==
    /\ CalledWith("_first_present")
    /\ Len(arg.s) >= 2
    /\ arg.s[1] # arg.s[2]
    /\ AliasHolds(1) /\ data[arg.s[1]] = PyInt(0)
    /\ AliasHolds(2) /\ data[arg.s[2]] = PyInt(80)
    /\ ret = PyInt(0)

----------------------------------------------------------------------------
(* Alias pairs of the register adapter *)

\* the first alias of a pair is present in the register bag with a non-null value
FirstAliasHolds(first) == first \in DOMAIN io_dict /\ ~IsNone(io_dict[first])

\* C21: after enrich_with_ioreg, a field with two register aliases holds the
\* value of the first alias whenever that alias is present with a non-null
\* value, the value 0 included.
ClaimFirstRegisterAlias ==
    (pc = "enriched" /\ io_dict # EmptyBag) =>
        /\ FirstAliasHolds("AppleRawMaxCapacity") =>
              Get(detail, "max_capacity") = to_int(io_dict["AppleRawMaxCapacity"])
        /\ FirstAliasHolds("Voltage") =>
              Get(detail, "voltage_mV") = to_int(io_dict["Voltage"])
        /\ FirstAliasHolds("Amperage") =>
              Get(detail, "amperage_mA") = to_int_signed_64(io_dict["Amperage"])

----------------------------------------------------------------------------
(* Numeric coercion *)

\* s is an integer literal: optional blanks, optional sign, decimal digits
IsIntegerLiteral(s) ==
    LET b == Strip(s)
        body == IF Len(b) > 0 /\ b[1] \in {43, 45} THEN Tail(b) ELSE b
    IN  Len(body) > 0 /\ \A i \in 1..Len(body) : body[i] \in 48..57

\* C22: to_int yields an integer only for an integer or an integer literal,
\* absent for a boolean, a non-integer float, any other string and null, and
\* never raises.
ClaimNumericCoercion ==
    fn = "to_int" =>
        /\ pc # "raised"
        /\ pc = "returned" =>
              /\ arg.t \in {"none", "bool"} => IsNone(ret)
              /\ (arg.t = "float" /\ (arg.k # 0 \/ arg.n % 10 # 0)) => IsNone(ret)
              /\ arg.t = "str" => (IsNone(ret) <=> ~IsIntegerLiteral(arg.s))
              /\ arg.t = "int" => ret = arg

----------------------------------------------------------------------------
(* Malformed structured reports *)

\* the report is an object whose entry list is a list or a single object
HasEntryList ==
    /\ sp # None /\ IsDict(sp) /\ "SPPowerDataType" \in DOMAIN sp.d
    /\ sp.d.SPPowerDataType.t \in {"dict", "list"}

\* C23: extraction returns for every parsed report, and a missing or
\* malformed sub-object of the retained battery entry leaves the fields read
\* from the entry itself and from its other sub-objects as their keys supply
\* them.
ClaimParseMiss ==
    /\ ~(pc = "raised" /\ sp # None)
    /\ (pc \in {"extracted", "raised"} /\ HasEntryList /\ MarkedAt(BatteryMarkers) # {}) =>
          LET e == ReportEntries[Max(MarkedAt(BatteryMarkers))]
              charge == DictGet(e, "sppower_battery_charge_info", PyDict(EmptyBag))
          IN  /\ Get(detail, "voltage_mV") =
                    to_int(DictGet(e, "sppower_current_voltage", None))
              /\ IsDict(charge) =>
                    Get(detail, "current_capacity") =
                        to_int(DictGet(charge, "sppower_battery_current_capacity", None))

----------------------------------------------------------------------------
(* External-device adapter *)

\* the lines of the text handed to parse_ideviceinfo_kv
KvInput == splitlines(arg.s)

HasColon(line) == \E i \in 1..Len(line) : line[i] = 58

\* the position of the first colon of a line that has one
FirstColon(line) == CHOOSE i \in 1..Len(line) : line[i] = 58 /\ \A j \in 1..(i - 1) : line[j] # 58

KeyOf(line) == Strip(SubSeq(line, 1, FirstColon(line) - 1))

RestOf(line) == Strip(SubSeq(line, FirstColon(line) + 1, Len(line)))

\* the lines that carry the key
LinesOf(key) == {i \in 1..Len(KvInput) : HasColon(KvInput[i]) /\ KeyOf(KvInput[i]) = key}

\* t is digits, a point and one more digit
IsFloatLiteral(t) ==
    /\ Len(t) >= 3
    /\ t[Len(t) - 1] = 46
    /\ \A i \in (1..Len(t)) \ {Len(t) - 1} : t[i] \in 48..57

\* the normalised value of a trimmed value text
Normalised(t) ==
    IF Lower(t) = str_true \/ t = str_Yes THEN True
    ELSE IF Lower(t) = str_false \/ t = str_No THEN False
    ELSE IF IsIntegerLiteral(t)
    THEN IF t[1] = 45 THEN PyInt(0 - DecimalValue(Tail(t)))
         ELSE IF t[1] = 43 THEN PyInt(DecimalValue(Tail(t)))
         ELSE PyInt(DecimalValue(t))
    ELSE IF IsFloatLiteral(t)
    THEN PyFloat(10 * DecimalValue(SubSeq(t, 1, Len(t) - 2)) + (t[Len(t)] - 48))
    ELSE PyStr(t)

\* C24: the bag has exactly the trimmed texts before the first colon of the
\* lines that have a colon as keys, and each key holds the normalised
\* remainder of the last line that carries it.
ThmKeyValueLines ==
    CalledWith("parse_ideviceinfo_kv") =>
        /\ DOMAIN data = {KeyOf(KvInput[i]) : i \in {j \in 1..Len(KvInput) : HasColon(KvInput[j])}}
        /\ \A key \in DOMAIN data :
              data[key] = Normalised(RestOf(KvInput[Max(LinesOf(key))]))

\* two lines with the same key once trimmed, the second with a colon in its
\* value: the key holds the second value, colon included
WitKeyValueLines ==
    /\ CalledWith("parse_ideviceinfo_kv")
    /\ Len(KvInput) = 2
    /\ HasColon(KvInput[1]) /\ HasColon(KvInput[2])
    /\ KeyOf(KvInput[1]) = KeyOf(KvInput[2])
    /\ SubSeq(KvInput[1], 1, FirstColon(KvInput[1]) - 1) # KeyOf(KvInput[1])
    /\ Normalised(RestOf(KvInput[1])) = PyInt(80)
    /\ data[KeyOf(KvInput[2])] = PyStr(<<49, 50, 58, 51, 48>>)

----------------------------------------------------------------------------
(* Derived metrics and the reconciled record *)

\* the reconciled record holds a true charging or connected flag
FlagSet(f) == Get(detail, f) \in {True, PyStr(str_TRUE)}

\* C25: after enrich_with_ioreg, a record that holds a non-zero max and
\* design capacity has a health percentage, and a record that holds a
\* voltage, a positive amperage and a true charging or connected flag has a
\* live wattage, whichever adapter supplied them.
ClaimDerivedFromRecord ==
    pc = "enriched" =>
        /\ (Truthy(Get(detail, "max_capacity")) /\ Truthy(Get(detail, "design_capacity"))) =>
              ~IsNone(Get(detail, "health_pct"))
        /\ (/\ ~IsNone(Get(detail, "voltage_mV"))
            /\ ~IsNone(Get(detail, "amperage_mA"))
            /\ Positive(Get(detail, "amperage_mA"))
            /\ (FlagSet("charger_is_charging") \/ FlagSet("charger_connected"))) =>
              ~IsNone(Get(detail, "charging_watts"))

----------------------------------------------------------------------------
(* Order of merging and derivation *)

\* the metrics the pass computes; every other field of the record is
\* supplied by a source
DerivedFields == {"charging_watts", "temperature_c", "health_pct", "manufacture_date"}

DerivedPresent == \E f \in DerivedFields : ~IsNone(Get(detail, f))

\* C26: once a derived metric is in the record, no source-supplied field of
\* the record is written again during the pass.
ClaimMergeBeforeDerive ==
    [][DerivedPresent =>
          \A f \in DetailFields \ DerivedFields : Get(detail', f) = Get(detail, f)]_vars

\* the statement-wise pass ends in a record the whole function can return
PassAgrees ==
    pc = "pass_done" =>
        \E d \in PassDetails : detail \in enrich_with_ioreg(d, io_dict, today_year)

----------------------------------------------------------------------------
(* Order of the entries of the structured report *)

\* the rearrangements of a list
Rearrangements(l) ==
    {[i \in 1..Len(l) |-> l[p[i]]] :
        p \in {f \in [1..Len(l) -> 1..Len(l)] : \A i, j \in 1..Len(l) : f[i] = f[j] => i = j}}

\* C27: the extracted record is the same for every rearrangement of the
\* entry list of the report (lists whose extraction returns in every order).
ClaimOrderIndependent ==
    (/\ pc = "extracted"
     /\ sp # None /\ IsDict(sp) /\ "SPPowerDataType" \in DOMAIN sp.d
     /\ sp.d.SPPowerDataType.t = "list") =>
        \A l \in Rearrangements(sp.d.SPPowerDataType.s) :
            LET report == PyDict([SPPowerDataType |-> PyList(l)])
            IN  extract_error(report) = "" => detail = extract_battery_and_charger(report)

----------------------------------------------------------------------------
(* The pass over the listed devices *)

\* batstat.py on the supported platform without --ios and --no-ios
AutoDetect ==
    /\ env # EmptyBag
    /\ env.program = "batstat" /\ env.platform = "Darwin"
    /\ ~env.ios /\ ~env.no_ios

DevicePcs == {"next_device", "ios_info", "ios_captured", "ios_built", "ios_rendered"}

LastPrinted == printed[Len(printed)]

\* what holds in every state of the pass
DevicePassState ==
    AutoDetect =>
        /\ printed # <<>> =>
              /\ printed[1] = [kind |-> "record", udid |-> None]
              /\ \A i \in 2..Len(printed) : printed[i].udid # None
        /\ pc \in DevicePcs => printed # <<>>
        /\ pc \in DevicePcs \ {"next_device"} => device.udid = Head(devices)
        /\ pc = "ios_info" =>
              data = get_ios_battery_info(capture).data /\ ~InfoFailed(get_ios_battery_info(capture))
        /\ pc \in {"ios_built", "ios_rendered"} =>
              /\ detail \in {[device_name |-> device.name, device_udid |-> device.udid] @@ d :
                                d \in build_ios_views(data)}
              /\ pmset_info = ios_pmset_info(data)
        /\ pc = "ios_rendered" => LastPrinted = [kind |-> "record", udid |-> device.udid]
        /\ pc = "exited" => exit_status = PyInt(0) /\ devices = <<>>

\* what holds of every step of the pass
DevicePassStep ==
    (AutoDetect /\ pc \in DevicePcs) =>
        /\ devices' # devices =>
              /\ devices' = Tail(devices)
              /\ \/ /\ pc = "next_device"
                    /\ printed' = Append(printed, [kind |-> "warning", udid |-> Head(devices)])
                    /\ InfoFailed(get_ios_battery_info(capture'))
                 \/ /\ pc = "ios_rendered"
                    /\ LastPrinted = [kind |-> "record", udid |-> Head(devices)]
        /\ (pc = "next_device" /\ devices # <<>>) =>
              /\ pc' \in {"next_device", "ios_info"}
              /\ exit_status' = exit_status
              /\ capture'.kind # "ok" => (pc' = "next_device" /\ devices' = Tail(devices))
        /\ printed' # printed => \E x \in {printed'[Len(printed')]} : printed' = Append(printed, x)

\* C28: in auto-detect mode the host record is printed first; the listed
\* devices are then taken one at a time in list order, each leaving the
\* list only when its record or its warning has been printed; a failed
\* capture prints a warning and goes on to the next device, and the run
\* ends with status 0 when no device is left; a device record is
\* build_ios_views of that device's own bag, name and UDID.
ThmDevicePass == []DevicePassState /\ [][DevicePassStep]_vars

\* two devices: the capture of the first fails, the second is rendered from
\* its own bag, which lacks the cycle count the host record has
WitDevicePass ==
    /\ AutoDetect
    /\ pc = "ios_rendered"
    /\ Len(printed) = 3
    /\ printed[2].kind = "warning"
    /\ printed[3] = [kind |-> "record", udid |-> device.udid]
    /\ printed[2].udid # printed[3].udid
    /\ ~IsNone(Get(io_dict, "CycleCount"))
    /\ "BatteryIsCharging" \in DOMAIN data
    /\ IsNone(detail.cycle_count)
    /\ detail.is_charging = True

----------------------------------------------------------------------------
(* Signed amperage in the package *)

\* the text the Amperage pattern captured is a negative integer literal
NegativeAmperage ==
    /\ ~IsNone(Get(battery, "amperage"))
    /\ Len(battery.amperage.s) > 1
    /\ battery.amperage.s[1] = 45

\* C29: whenever the register dump gives Amperage as a negative integer
\* literal, the amperage the package reports is that negative integer.
ClaimSignedAmperage ==
    pc = "pkg_displayed" /\ NegativeAmperage =>
        out.amperage = PyInt(0 - DecimalValue(Tail(battery.amperage.s)))

----------------------------------------------------------------------------
(* Frame of the register-adapter merge *)

\* one call of enrich_with_ioreg leaves the record as it was when the
\* register bag is empty, and leaves no field null that was not null
MergeFrameStep ==
    pc = "extracted" /\ pc' = "enriched" =>
        /\ io_dict' = EmptyBag => detail' = detail
        /\ \A f \in DOMAIN detail : ~IsNone(detail[f]) => ~IsNone(Get(detail', f))

\* C30: with an empty register bag enrich_with_ioreg returns the record
\* unchanged, and in every case a field that was non-null before the merge is
\* non-null after it.
ThmMergeFrame == [][MergeFrameStep]_vars

\* a merged record that still holds the structured report's cycle count, the
\* register bag being non-empty and having no cycle count of its own
WitMergeFrame ==
    /\ pc = "enriched"
    /\ io_dict # EmptyBag
    /\ "CycleCount" \notin DOMAIN io_dict
    /\ Get(detail, "cycle_count") = PyInt(150)

====
